---------------------------- MODULE Spec2Model ----------------------------
(***************************************************************************)
(* A model of otel-cli's OTLP ingestion servers (package otlpserver: the   *)
(* gRPC and the HTTP backend with their Stop/StopWait lifecycle) and of    *)
(* the MCP trace store (package mcpserver: TraceStore.AddSpan and the      *)
(* eviction sweep cleanupOldTraces).                                       *)
(*                                                                         *)
(* Three specifications share the module:                                  *)
(*   SpecGrpc   the gRPC backend (GrpcServer)                              *)
(*   SpecHttp   the HTTP backend (HttpServer)                              *)
(*   SpecStore  the trace store  (TraceStore)                              *)
(* FairSpecGrpc adds to SpecGrpc the fairness of the Go scheduler.         *)
(***************************************************************************)
EXTENDS Integers, Sequences, FiniteSets, TLC

(***************************************************************************)
(* Bounds of the model.                                                    *)
(***************************************************************************)
\* external goroutines that call Stop() or StopWait()
NumCallers == 2
\* request handlers (each may spawn one `go StopWait()` goroutine)
NumHandlers == 1

Callers == 1..NumCallers
Handlers == 1..NumHandlers
\* the goroutine a handler starts with `go gs.StopWait()` / `go hs.StopWait()`
Spawned(h) == NumCallers + h
Goroutines == 1..(NumCallers + NumHandlers)

VARIABLES
    \* ---- server lifecycle (both backends) ----
    proto,          \* "grpc" | "http": the backend NewServer built
    logCallback,    \* TRUE when SetLogCallback registered a callback
    pc,             \* [Goroutines -> position inside Stop / StopWait]
    kind,           \* [Goroutines -> "none" | "Stop" | "StopWait"]
    hpc,            \* [Handlers -> position inside the export handler]
    hsig,           \* [Handlers -> "none" | "traces" | "logs"]: the handler routed to
    hstatus,        \* [Handlers -> 0 | 200 | 406]: the HTTP status written
    servePc,        \* position of the goroutine inside Serve
    \* ---- grpcServerState ----
    stoponce,       \* sync.Once: [done, m] (m = holder of the Once's mutex, 0 = free)
    doneonce,       \* sync.Once: [done, m]
    stopdone,       \* number of values in the buffered channel (capacity 1)
    shutPc,         \* position of the goroutine started by NewGrpcServer
    \* ---- http.Server ----
    inShutdown,     \* http.Server.inShutdown
    \* ---- observations ----
    hookCalls,      \* invocations of the Stopper hook
    stopCalls,      \* invocations of grpc GracefulStop / http Close+Shutdown
    sends,          \* executions of the stoponce body (sends on stopper)
    \* ---- TraceStore ----
    traces,         \* map traceID -> TraceData
    spansByFile,    \* map file path -> sequence of CodeSpanContext
    maxSpans,       \* MCPConfig.MaxSpans
    retention,      \* MCPConfig.RetentionTime
    \* ---- the clock and observations of the store ----
    now,            \* time.Now()
    nAdds,          \* calls of HandleSpan so far
    call,           \* the last call of AddSpan: its record and what it found
    sweep,          \* what the last run of cleanupOldTraces marked
    \* ---- one run of doCallback / doLogCallback ----
    request,        \* the export request: resources of scopes of record counts
    signal,         \* "traces" (doCallback) | "logs" (doLogCallback)
    cursor,         \* <<resource, scope, record>> of the loops
    invoked,        \* the callback invocations so far: [leaf, done, meta]
    meta,           \* the serverMeta argument of the run
    result,         \* "idle" | "running" | "true" | "false": the value returned
    \* ---- what each HTTP handler was asked and which callback it ran ----
    huri,           \* [Handlers -> req.RequestURI, "" outside a request]
    hcb,            \* [Handlers -> "none" | "trace" | "log"]: the callback invoked
    \* ---- MCPServer: the websocket observers ----
    clients,        \* mcp.clients: map[*websocket.Conn]bool
    notice,         \* what the last run of notifyClients wrote, and to whom
    \* ---- one call of CodeAnalyzer.AnalyzeSpan ----
    codeAnalyzer,   \* the analyzer: its project root and the files on its disk
    analysed,       \* the span (with its events) given to AnalyzeSpan
    extracted,      \* the contexts AnalyzeSpan returned
    analysisDone,   \* TRUE once AnalyzeSpan has returned
    \* ---- the queries of the store ----
    answer,         \* the last query answered: its name, arguments and value
    \* ---- the goroutines of the MCP server and its two locks ----
    storeLock,      \* store.lock: [writer, readers], the goroutines that hold it
    clientsLock,    \* mcp.clientsLock: the goroutine that holds it, or "none"
    ipc,            \* [Ingesters -> position inside Export / HandleSpan]
    ispan,          \* [Ingesters -> the span of the export being handled]
    acked,          \* [Ingesters -> the export has been answered]
    qpc             \* [Queriers -> position inside handleGetTrace]

srvVars == <<proto, logCallback, pc, kind, hpc, hsig, hstatus, servePc, stoponce,
             doneonce, stopdone, shutPc, inShutdown, hookCalls,
             stopCalls, sends>>

storeVars == <<traces, spansByFile, maxSpans, retention, now, nAdds, call, sweep>>

dispVars == <<request, signal, cursor, invoked, meta, result>>

reqVars == <<huri, hcb>>

wsVars == <<clients, notice>>

anVars == <<codeAnalyzer, analysed, extracted, analysisDone>>

qVars == <<answer>>

lkVars == <<storeLock, clientsLock, ipc, ispan, acked, qpc>>

vars == <<srvVars, storeVars, dispVars, reqVars, wsVars, anVars, qVars, lkVars>>

\* an empty Go map
EmptyMap == [x \in {} |-> x]

\* a nil *SpanData
NoSpan == [SpanID |-> "nil"]

\* no call of AddSpan yet, no run of cleanupOldTraces yet
NoCall == [span |-> NoSpan, existed |-> FALSE, same |-> FALSE, count |-> 0]
NoSweep == [old |-> {}, sized |-> {}, ends |-> EmptyMap]

\* the store of a process that serves no MCP endpoint
NoStore ==
    /\ traces = EmptyMap
    /\ spansByFile = EmptyMap
    /\ maxSpans = 0
    /\ retention = 0
    /\ now = 0
    /\ nAdds = 0
    /\ call = NoCall
    /\ sweep = NoSweep

\* no export request is being dispatched
\* no HTTP request has been received
NoRequest ==
    /\ huri = [h \in Handlers |-> ""]
    /\ hcb = [h \in Handlers |-> "none"]

\* AnalyzeSpan is not called on its own
\* goroutines of export handlers and of query handlers of the MCP server
Ingesters == {<<"ingest", h>> : h \in Handlers}
Queriers == {<<"query", h>> : h \in Handlers}
\* the holder of a free lock
Nobody == <<"none", 0>>
\* an export handler that is not running; a running one remembers how far
\* HandleSpan got with its span
NoExport == [proto |-> "none", analysed |-> FALSE, written |-> FALSE]
\* a query handler that is not running
IdleQuery == [at |-> "idle", id |-> "none", raced |-> FALSE]

\* both locks free, every goroutine idle
NoLocks ==
    /\ storeLock = [writer |-> Nobody, readers |-> {}]
    /\ clientsLock = Nobody
    /\ ipc = [g \in Ingesters |-> "idle"]
    /\ ispan = [g \in Ingesters |-> NoExport]
    /\ acked = [g \in Ingesters |-> FALSE]
    /\ qpc = [q \in Queriers |-> IdleQuery]

\* no query of the store has been answered
NoAnswer == answer = [op |-> "none"]

NoAnalysis ==
    /\ codeAnalyzer = [projectRoot |-> "", files |-> {}]
    /\ analysed = NoSpan
    /\ extracted = <<>>
    /\ analysisDone = FALSE

\* no run of notifyClients yet
NoNotice == [message |-> [Type |-> "none"], before |-> {}, failing |-> {},
             writes |-> EmptyMap]

\* clients: make(map[*websocket.Conn]bool)
NoClients ==
    /\ clients = EmptyMap
    /\ notice = NoNotice

NoDispatch ==
    /\ request = <<>>
    /\ signal = "none"
    /\ cursor = <<0, 0, 0>>
    /\ invoked = <<>>
    /\ meta = <<>>
    /\ result = "idle"

\* capacity of stopdone: make(chan struct{}, 1)
StopdoneCap == 1

FreshOnce == [done |-> FALSE, m |-> 0]

(***************************************************************************)
(* NewGrpcServer: the state after construction.  The shutdown goroutine is *)
(* started and blocks receiving from stopper.                              *)
(***************************************************************************)
NewGrpcServer ==
    /\ proto = "grpc"
    /\ logCallback \in BOOLEAN
    /\ pc = [g \in Goroutines |-> "idle"]
    /\ kind = [g \in Goroutines |-> "none"]
    /\ hpc = [h \in Handlers |-> "idle"]
    /\ hsig = [h \in Handlers |-> "none"]
    /\ NoRequest
    /\ NoClients
    /\ NoAnalysis
    /\ NoAnswer
    /\ NoLocks
    /\ hstatus = [h \in Handlers |-> 0]
    /\ servePc = "idle"
    /\ stoponce = FreshOnce
    /\ doneonce = FreshOnce
    /\ stopdone = 0
    /\ shutPc = "recv"
    /\ inShutdown = FALSE
    /\ hookCalls = 0
    /\ stopCalls = 0
    /\ sends = 0
    /\ NoStore
    /\ NoDispatch

(***************************************************************************)
(* sync.Once.Do(f): a caller that finds done set returns at once; the      *)
(* first caller takes the Once's mutex and runs f; a caller that arrives   *)
(* while f runs blocks on the mutex until f has returned and done is set.  *)
(***************************************************************************)
\* where a goroutine continues once gs.Stop() has returned
AfterStop(g) == IF kind[g] = "StopWait" THEN "wait" ELSE "returned"

\* some export handler is between accepting its request and answering it
InFlight == \E h \in Handlers : hpc[h] \in {"callback", "spawn", "reply"}

\* Stop without the Once: every caller sends on stopper
StopNoOnce(g) ==
    /\ proto = "grpc"
    /\ pc[g] = "stop"
    /\ pc' = [pc EXCEPT ![g] = "stop_send"]
    /\ sends' = sends + 1
    /\ UNCHANGED <<storeVars, dispVars, reqVars, wsVars, anVars, qVars, lkVars>>
    /\ UNCHANGED <<proto, logCallback, kind, hpc, hsig, hstatus, servePc,
                   stoponce, doneonce, stopdone, shutPc, inShutdown, hookCalls,
                   stopCalls>>

(***************************************************************************)
(* GrpcServer.Stop: gs.state.stoponce.Do(func() { stopper <- struct{}{} }) *)
(***************************************************************************)
StopOnceDo(g) ==
    /\ proto = "grpc"
    /\ pc[g] = "stop"
    /\ IF stoponce.done
         THEN /\ pc' = [pc EXCEPT ![g] = AfterStop(g)]
              /\ UNCHANGED <<stoponce, sends>>
         ELSE /\ stoponce.m = 0
              /\ pc' = [pc EXCEPT ![g] = "stop_send"]
              /\ stoponce' = [stoponce EXCEPT !.m = g]
              /\ sends' = sends + 1
    /\ UNCHANGED <<storeVars, dispVars, reqVars, wsVars, anVars, qVars, lkVars>>
    /\ UNCHANGED <<proto, logCallback, kind, hpc, hsig, hstatus, servePc,
                   doneonce, stopdone, shutPc, inShutdown, hookCalls, stopCalls>>

\* the send on the unbuffered stopper meets the shutdown goroutine's receive;
\* the Once's body returns, done is set and the mutex released
StopperSend(g) ==
    /\ proto = "grpc"
    /\ pc[g] = "stop_send"
    /\ shutPc = "recv"
    /\ shutPc' = "hook"
    /\ stoponce' = [done |-> TRUE, m |-> 0]
    /\ pc' = [pc EXCEPT ![g] = AfterStop(g)]
    /\ UNCHANGED <<storeVars, dispVars, reqVars, wsVars, anVars, qVars, lkVars>>
    /\ UNCHANGED <<proto, logCallback, kind, hpc, hsig, hstatus, servePc,
                   doneonce, stopdone, inShutdown, hookCalls, stopCalls, sends>>

Stop(g) == StopOnceDo(g) \/ StopperSend(g)

\* StopWait that does not wait for the serve loop's completion signal
WaitNoBlock(g) ==
    /\ proto = "grpc"
    /\ pc[g] = "wait"
    /\ pc' = [pc EXCEPT ![g] = "returned"]
    /\ UNCHANGED <<storeVars, dispVars, reqVars, wsVars, anVars, qVars, lkVars>>
    /\ UNCHANGED <<proto, logCallback, kind, hpc, hsig, hstatus, servePc,
                   stoponce, doneonce, stopdone, shutPc, inShutdown, hookCalls,
                   stopCalls, sends>>

(***************************************************************************)
(* GrpcServer.StopWait: gs.Stop(); doneonce.Do(func() { <-stopdone })      *)
(***************************************************************************)
WaitOnceDo(g) ==
    /\ proto = "grpc"
    /\ pc[g] = "wait"
    /\ IF doneonce.done
         THEN /\ pc' = [pc EXCEPT ![g] = "returned"]
              /\ UNCHANGED doneonce
         ELSE /\ doneonce.m = 0
              /\ pc' = [pc EXCEPT ![g] = "wait_recv"]
              /\ doneonce' = [doneonce EXCEPT !.m = g]
    /\ UNCHANGED <<storeVars, dispVars, reqVars, wsVars, anVars, qVars, lkVars>>
    /\ UNCHANGED <<proto, logCallback, kind, hpc, hsig, hstatus, servePc,
                   stoponce, stopdone, shutPc, inShutdown, hookCalls, stopCalls,
                   sends>>

\* <-gs.state.stopdone; the Once's body returns, done is set, the mutex released
StopdoneRecv(g) ==
    /\ proto = "grpc"
    /\ pc[g] = "wait_recv"
    /\ stopdone > 0
    /\ stopdone' = stopdone - 1
    /\ doneonce' = [done |-> TRUE, m |-> 0]
    /\ pc' = [pc EXCEPT ![g] = "returned"]
    /\ UNCHANGED <<storeVars, dispVars, reqVars, wsVars, anVars, qVars, lkVars>>
    /\ UNCHANGED <<proto, logCallback, kind, hpc, hsig, hstatus, servePc,
                   stoponce, shutPc, inShutdown, hookCalls, stopCalls, sends>>

StopWait(g) == WaitOnceDo(g) \/ StopdoneRecv(g)

(***************************************************************************)
(* The goroutine NewGrpcServer starts:                                     *)
(*     <-state.stopper; stop(s); state.server.GracefulStop()               *)
(* GracefulStop closes the listeners, refuses new requests and blocks      *)
(* until the requests in flight have been answered.                        *)
(***************************************************************************)
StopperHook ==
    /\ proto = "grpc"
    /\ shutPc = "hook"
    /\ hookCalls' = hookCalls + 1
    /\ shutPc' = "graceful"
    /\ UNCHANGED <<storeVars, dispVars, reqVars, wsVars, anVars, qVars, lkVars>>
    /\ UNCHANGED <<proto, logCallback, pc, kind, hpc, hsig, hstatus,
                   servePc, stoponce, doneonce, stopdone, inShutdown, stopCalls,
                   sends>>

GracefulStopBegin ==
    /\ proto = "grpc"
    /\ shutPc = "graceful"
    /\ stopCalls' = stopCalls + 1
    /\ shutPc' = "drain"
    /\ UNCHANGED <<storeVars, dispVars, reqVars, wsVars, anVars, qVars, lkVars>>
    /\ UNCHANGED <<proto, logCallback, pc, kind, hpc, hsig, hstatus,
                   servePc, stoponce, doneonce, stopdone, inShutdown, hookCalls,
                   sends>>

GracefulStopEnd ==
    /\ proto = "grpc"
    /\ shutPc = "drain"
    /\ ~InFlight
    /\ shutPc' = "done"
    /\ UNCHANGED <<storeVars, dispVars, reqVars, wsVars, anVars, qVars, lkVars>>
    /\ UNCHANGED <<proto, logCallback, pc, kind, hpc, hsig, hstatus,
                   servePc, stoponce, doneonce, stopdone, inShutdown, hookCalls,
                   stopCalls, sends>>

(***************************************************************************)
(* GrpcServer.Serve: err := server.Serve(listener); stopdone <- struct{}{} *)
(* grpc's Serve returns once GracefulStop has completed; called on a       *)
(* server that is already stopping it returns at once (ErrServerStopped).  *)
(***************************************************************************)
GrpcServeStart ==
    /\ proto = "grpc"
    /\ servePc = "idle"
    /\ servePc' = IF shutPc \in {"drain", "done"} THEN "exited" ELSE "serving"
    /\ UNCHANGED <<storeVars, dispVars, reqVars, wsVars, anVars, qVars, lkVars>>
    /\ UNCHANGED <<proto, logCallback, pc, kind, hpc, hsig, hstatus,
                   stoponce, doneonce, stopdone, shutPc, inShutdown, hookCalls,
                   stopCalls, sends>>

GrpcServeExit ==
    /\ proto = "grpc"
    /\ servePc = "serving"
    /\ shutPc = "done"
    /\ servePc' = "exited"
    /\ UNCHANGED <<storeVars, dispVars, reqVars, wsVars, anVars, qVars, lkVars>>
    /\ UNCHANGED <<proto, logCallback, pc, kind, hpc, hsig, hstatus,
                   stoponce, doneonce, stopdone, shutPc, inShutdown, hookCalls,
                   stopCalls, sends>>

\* the send on a stopdone made without buffer: it waits for a StopWait() that
\* receives, and hands the value over
GrpcServeHandOver ==
    /\ proto = "grpc"
    /\ servePc = "exited"
    /\ \E g \in Goroutines :
          /\ pc[g] = "wait_recv"
          /\ pc' = [pc EXCEPT ![g] = "returned"]
    /\ doneonce' = [done |-> TRUE, m |-> 0]
    /\ servePc' = "returned"
    /\ UNCHANGED <<storeVars, dispVars, reqVars, wsVars, anVars, qVars, lkVars>>
    /\ UNCHANGED <<proto, logCallback, kind, hpc, hsig, hstatus, stoponce,
                   stopdone, shutPc, inShutdown, hookCalls, stopCalls, sends>>

GrpcServeSignal ==
    /\ proto = "grpc"
    /\ servePc = "exited"
    /\ stopdone < StopdoneCap
    /\ stopdone' = stopdone + 1
    /\ servePc' = "returned"
    /\ UNCHANGED <<storeVars, dispVars, reqVars, wsVars, anVars, qVars, lkVars>>
    /\ UNCHANGED <<proto, logCallback, pc, kind, hpc, hsig, hstatus,
                   stoponce, doneonce, shutPc, inShutdown, hookCalls, stopCalls,
                   sends>>

GrpcServe == GrpcServeStart \/ GrpcServeExit \/ GrpcServeSignal

(***************************************************************************)
(* GrpcServer.Export and grpcLogsService.Export: run the callbacks; on a   *)
(* stop request start `go gs.StopWait()`; answer the request.              *)
(***************************************************************************)
GrpcExportBegin(h, sig) ==
    /\ proto = "grpc"
    /\ hpc[h] = "idle"
    /\ servePc = "serving"
    /\ shutPc \notin {"drain", "done"}
    /\ hsig' = [hsig EXCEPT ![h] = sig]
    \* the logs service answers at once when no log callback is registered
    /\ hpc' = [hpc EXCEPT ![h] = IF sig = "logs" /\ ~logCallback
                                   THEN "reply" ELSE "callback"]
    /\ UNCHANGED <<storeVars, dispVars, reqVars, wsVars, anVars, qVars, lkVars>>
    /\ UNCHANGED <<proto, logCallback, pc, kind, hstatus, servePc,
                   stoponce, doneonce, stopdone, shutPc, inShutdown, hookCalls,
                   stopCalls, sends>>

\* done := doCallback(...) / doLogCallback(...)
GrpcExportCallback(h, done) ==
    /\ proto = "grpc"
    /\ hpc[h] = "callback"
    /\ hpc' = [hpc EXCEPT ![h] = IF done THEN "spawn" ELSE "reply"]
    /\ UNCHANGED <<storeVars, dispVars, reqVars, wsVars, anVars, qVars, lkVars>>
    /\ UNCHANGED <<proto, logCallback, pc, kind, hsig, hstatus, servePc,
                   stoponce, doneonce, stopdone, shutPc, inShutdown, hookCalls,
                   stopCalls, sends>>

\* go gs.StopWait()
GrpcExportSpawn(h) ==
    /\ proto = "grpc"
    /\ hpc[h] = "spawn"
    /\ hpc' = [hpc EXCEPT ![h] = "reply"]
    /\ pc' = [pc EXCEPT ![Spawned(h)] = "stop"]
    /\ kind' = [kind EXCEPT ![Spawned(h)] = "StopWait"]
    /\ UNCHANGED <<storeVars, dispVars, reqVars, wsVars, anVars, qVars, lkVars>>
    /\ UNCHANGED <<proto, logCallback, hsig, hstatus, servePc, stoponce,
                   doneonce, stopdone, shutPc, inShutdown, hookCalls, stopCalls,
                   sends>>

\* a handler that answers only when the shutdown it asked for is over
GrpcExportReturnAfterStop(h) ==
    /\ proto = "grpc"
    /\ hpc[h] = "reply"
    /\ kind[Spawned(h)] = "StopWait" => pc[Spawned(h)] = "returned"
    /\ hpc' = [hpc EXCEPT ![h] = "acked"]
    /\ UNCHANGED <<storeVars, dispVars, reqVars, wsVars, anVars, qVars, lkVars>>
    /\ UNCHANGED <<proto, logCallback, pc, kind, hsig, hstatus, servePc,
                   stoponce, doneonce, stopdone, shutPc, inShutdown, hookCalls,
                   stopCalls, sends>>

\* return &Export...ServiceResponse{}, nil
GrpcExportReturn(h) ==
    /\ proto = "grpc"
    /\ hpc[h] = "reply"
    /\ hpc' = [hpc EXCEPT ![h] = "acked"]
    /\ UNCHANGED <<storeVars, dispVars, reqVars, wsVars, anVars, qVars, lkVars>>
    /\ UNCHANGED <<proto, logCallback, pc, kind, hsig, hstatus, servePc,
                   stoponce, doneonce, stopdone, shutPc, inShutdown, hookCalls,
                   stopCalls, sends>>

GrpcExport(h) ==
    \/ \E sig \in {"traces", "logs"} : GrpcExportBegin(h, sig)
    \/ \E done \in BOOLEAN : GrpcExportCallback(h, done)
    \/ GrpcExportSpawn(h)
    \/ GrpcExportReturn(h)

(***************************************************************************)
(* External callers: each goroutine calls Stop() or StopWait() once, at    *)
(* any time: while another call runs or after it has returned.             *)
(***************************************************************************)
Call(c, k) ==
    /\ pc[c] = "idle"
    /\ pc' = [pc EXCEPT ![c] = "stop"]
    /\ kind' = [kind EXCEPT ![c] = k]
    /\ UNCHANGED <<storeVars, dispVars, reqVars, wsVars, anVars, qVars, lkVars>>
    /\ UNCHANGED <<proto, logCallback, hpc, hsig, hstatus, servePc, stoponce,
                   doneonce, stopdone, shutPc, inShutdown, hookCalls, stopCalls,
                   sends>>

NextGrpc ==
    \/ \E c \in Callers : \E k \in {"Stop", "StopWait"} : Call(c, k)
    \/ \E g \in Goroutines : Stop(g)
    \/ \E g \in Goroutines : StopWait(g)
    \/ StopperHook
    \/ GracefulStopBegin
    \/ GracefulStopEnd
    \/ GrpcServe
    \/ \E h \in Handlers : GrpcExport(h)

SpecGrpc == NewGrpcServer /\ [][NextGrpc]_vars

(***************************************************************************)
(* The steps the Go scheduler takes on its own: the goroutines inside      *)
(* Stop/StopWait, the shutdown goroutine, the goroutine inside Serve       *)
(* (runServer calls ListenAndServe) and the handlers of accepted requests. *)
(* Nothing obliges a caller to call or a client to connect.  The scheduler *)
(* does not stop while one of these goroutines can run.                    *)
(***************************************************************************)
GrpcProgress ==
    \/ \E g \in Goroutines : Stop(g)
    \/ \E g \in Goroutines : StopWait(g)
    \/ StopperHook
    \/ GracefulStopBegin
    \/ GracefulStopEnd
    \/ GrpcServe
    \/ \E h \in Handlers :
          \/ \E done \in BOOLEAN : GrpcExportCallback(h, done)
          \/ GrpcExportSpawn(h)
          \/ GrpcExportReturn(h)

FairSpecGrpc == SpecGrpc /\ WF_vars(GrpcProgress)

(***************************************************************************)
(* NewHttpServer: the state after construction.  The stop argument is not  *)
(* stored; no goroutine is started.                                        *)
(***************************************************************************)
NewHttpServer ==
    /\ proto = "http"
    /\ logCallback \in BOOLEAN
    /\ pc = [g \in Goroutines |-> "idle"]
    /\ kind = [g \in Goroutines |-> "none"]
    /\ hpc = [h \in Handlers |-> "idle"]
    /\ hsig = [h \in Handlers |-> "none"]
    /\ NoRequest
    /\ NoClients
    /\ NoAnalysis
    /\ NoAnswer
    /\ NoLocks
    /\ hstatus = [h \in Handlers |-> 0]
    /\ servePc = "idle"
    /\ stoponce = FreshOnce
    /\ doneonce = FreshOnce
    /\ stopdone = 0
    /\ shutPc = "none"
    /\ inShutdown = FALSE
    /\ hookCalls = 0
    /\ stopCalls = 0
    /\ sends = 0
    /\ NoStore
    /\ NoDispatch

(***************************************************************************)
(* HttpServer.Stop: hs.server.Close().  Close marks the server as shutting *)
(* down and closes the listeners and the connections.                      *)
(***************************************************************************)
HttpStop(g) ==
    /\ proto = "http"
    /\ pc[g] = "stop"
    /\ kind[g] = "Stop"
    /\ inShutdown' = TRUE
    /\ stopCalls' = stopCalls + 1
    /\ pc' = [pc EXCEPT ![g] = "returned"]
    /\ UNCHANGED <<storeVars, dispVars, reqVars, wsVars, anVars, qVars, lkVars>>
    /\ UNCHANGED <<proto, logCallback, kind, hpc, hsig, hstatus, servePc,
                   stoponce, doneonce, stopdone, shutPc, hookCalls, sends>>

(***************************************************************************)
(* HttpServer.StopWait: hs.server.Shutdown(context.Background()).          *)
(* Shutdown marks the server as shutting down, closes the listeners and    *)
(* returns when no request is in flight any more.                          *)
(***************************************************************************)
HttpShutdown(g) ==
    /\ proto = "http"
    /\ pc[g] = "stop"
    /\ kind[g] = "StopWait"
    /\ inShutdown' = TRUE
    /\ stopCalls' = stopCalls + 1
    /\ pc' = [pc EXCEPT ![g] = "wait"]
    /\ UNCHANGED <<storeVars, dispVars, reqVars, wsVars, anVars, qVars, lkVars>>
    /\ UNCHANGED <<proto, logCallback, kind, hpc, hsig, hstatus, servePc,
                   stoponce, doneonce, stopdone, shutPc, hookCalls, sends>>

HttpShutdownIdle(g) ==
    /\ proto = "http"
    /\ pc[g] = "wait"
    /\ ~InFlight
    /\ pc' = [pc EXCEPT ![g] = "returned"]
    /\ UNCHANGED <<storeVars, dispVars, reqVars, wsVars, anVars, qVars, lkVars>>
    /\ UNCHANGED <<proto, logCallback, kind, hpc, hsig, hstatus, servePc,
                   stoponce, doneonce, stopdone, shutPc, inShutdown, hookCalls,
                   stopCalls, sends>>

HttpStopWait(g) == HttpShutdown(g) \/ HttpShutdownIdle(g)

(***************************************************************************)
(* HttpServer.Serve: hs.server.Serve(listener) returns ErrServerClosed     *)
(* once Close or Shutdown has been called.                                 *)
(***************************************************************************)
HttpServeStart ==
    /\ proto = "http"
    /\ servePc = "idle"
    /\ servePc' = IF inShutdown THEN "returned" ELSE "serving"
    /\ UNCHANGED <<storeVars, dispVars, reqVars, wsVars, anVars, qVars, lkVars>>
    /\ UNCHANGED <<proto, logCallback, pc, kind, hpc, hsig, hstatus, stoponce,
                   doneonce, stopdone, shutPc, inShutdown, hookCalls, stopCalls,
                   sends>>

HttpServeExit ==
    /\ proto = "http"
    /\ servePc = "serving"
    /\ inShutdown
    /\ servePc' = "returned"
    /\ UNCHANGED <<storeVars, dispVars, reqVars, wsVars, anVars, qVars, lkVars>>
    /\ UNCHANGED <<proto, logCallback, pc, kind, hpc, hsig, hstatus, stoponce,
                   doneonce, stopdone, shutPc, inShutdown, hookCalls, stopCalls,
                   sends>>

HttpServe == HttpServeStart \/ HttpServeExit

(***************************************************************************)
(* HttpServer.ServeHTTP, handleTraces, handleLogs.                         *)
(***************************************************************************)
RequestURIs == {"/v1/traces", "/v1/logs", "/"}
ContentTypes == {"application/x-protobuf", "application/json", "text/plain"}

\* the switch on req.RequestURI
Route(uri) == IF uri = "/v1/logs" THEN "logs" ELSE "traces"

\* a handler that passes every request to the log callback
CallbackLogOnly(sig) == "log"

\* handleTraces passes hs.traceCallback to doCallback, handleLogs passes
\* hs.logCallback to doLogCallback
Callback(sig) == IF sig = "logs" THEN "log" ELSE "trace"

\* the switch on the Content-Type header
Decodable(ctype) == ctype \in {"application/x-protobuf", "application/json"}

ServeHTTP(h, uri, ctype) ==
    /\ proto = "http"
    /\ hpc[h] = "idle"
    /\ servePc = "serving"
    /\ ~inShutdown
    /\ hsig' = [hsig EXCEPT ![h] = Route(uri)]
    /\ huri' = [huri EXCEPT ![h] = uri]
    /\ IF Route(uri) = "logs" /\ ~logCallback
         THEN /\ hstatus' = [hstatus EXCEPT ![h] = 200]
              /\ hpc' = [hpc EXCEPT ![h] = "reply"]
         ELSE IF ~Decodable(ctype)
                THEN /\ hstatus' = [hstatus EXCEPT ![h] = 406]
                     /\ hpc' = [hpc EXCEPT ![h] = "reply"]
                ELSE /\ hpc' = [hpc EXCEPT ![h] = "callback"]
                     /\ UNCHANGED hstatus
    /\ UNCHANGED <<storeVars, dispVars, hcb, wsVars, anVars, qVars, lkVars>>
    /\ UNCHANGED <<proto, logCallback, pc, kind, servePc, stoponce, doneonce,
                   stopdone, shutPc, inShutdown, hookCalls, stopCalls, sends>>

\* done := doCallback(...) / doLogCallback(...)
HttpCallback(h, done) ==
    /\ proto = "http"
    /\ hpc[h] = "callback"
    /\ hpc' = [hpc EXCEPT ![h] = IF done THEN "spawn" ELSE "reply"]
    /\ hcb' = [hcb EXCEPT ![h] = Callback(hsig[h])]
    /\ UNCHANGED <<storeVars, dispVars, huri, wsVars, anVars, qVars, lkVars>>
    /\ UNCHANGED <<proto, logCallback, pc, kind, hsig, hstatus, servePc,
                   stoponce, doneonce, stopdone, shutPc, inShutdown, hookCalls,
                   stopCalls, sends>>

\* go hs.StopWait()
HttpSpawn(h) ==
    /\ proto = "http"
    /\ hpc[h] = "spawn"
    /\ hpc' = [hpc EXCEPT ![h] = "reply"]
    /\ pc' = [pc EXCEPT ![Spawned(h)] = "stop"]
    /\ kind' = [kind EXCEPT ![Spawned(h)] = "StopWait"]
    /\ UNCHANGED <<storeVars, dispVars, reqVars, wsVars, anVars, qVars, lkVars>>
    /\ UNCHANGED <<proto, logCallback, hsig, hstatus, servePc, stoponce,
                   doneonce, stopdone, shutPc, inShutdown, hookCalls, stopCalls,
                   sends>>

\* the handler returns; a handler that wrote no status answers 200, and
\* the request goes out of scope
HttpReturn(h) ==
    /\ proto = "http"
    /\ hpc[h] = "reply"
    /\ hpc' = [hpc EXCEPT ![h] = "acked"]
    /\ hstatus' = [hstatus EXCEPT ![h] = IF @ = 0 THEN 200 ELSE @]
    /\ huri' = [huri EXCEPT ![h] = ""]
    /\ hcb' = [hcb EXCEPT ![h] = "none"]
    /\ hsig' = [hsig EXCEPT ![h] = "none"]
    /\ UNCHANGED <<storeVars, dispVars, wsVars, anVars, qVars, lkVars>>
    /\ UNCHANGED <<proto, logCallback, pc, kind, servePc, stoponce,
                   doneonce, stopdone, shutPc, inShutdown, hookCalls, stopCalls,
                   sends>>

HttpHandler(h) ==
    \/ \E uri \in RequestURIs : \E ctype \in ContentTypes : ServeHTTP(h, uri, ctype)
    \/ \E done \in BOOLEAN : HttpCallback(h, done)
    \/ HttpSpawn(h)
    \/ HttpReturn(h)

NextHttp ==
    \/ \E c \in Callers : \E k \in {"Stop", "StopWait"} : Call(c, k)
    \/ \E g \in Goroutines : HttpStop(g)
    \/ \E g \in Goroutines : HttpStopWait(g)
    \/ HttpServe
    \/ \E h \in Handlers : HttpHandler(h)

SpecHttp == NewHttpServer /\ [][NextHttp]_vars

\* the steps of the HTTP backend the Go scheduler takes on its own
HttpProgress ==
    \/ \E g \in Goroutines : HttpStop(g)
    \/ \E g \in Goroutines : HttpStopWait(g)
    \/ HttpServe
    \/ \E h \in Handlers :
          \/ \E done \in BOOLEAN : HttpCallback(h, done)
          \/ HttpSpawn(h)
          \/ HttpReturn(h)

(***************************************************************************)
(* NewServer builds either backend: both lifecycles under the fairness of  *)
(* the Go scheduler.                                                       *)
(***************************************************************************)
NewServer == NewGrpcServer \/ NewHttpServer

NextOtlp == NextGrpc \/ NextHttp

FairSpecOtlp ==
    /\ NewServer
    /\ [][NextOtlp]_vars
    /\ WF_vars(GrpcProgress)
    /\ WF_vars(HttpProgress)

(***************************************************************************)
(* Claims about the server lifecycle.                                      *)
(***************************************************************************)
\* goroutines whose call to Stop() (alone or inside StopWait()) has returned
PastStop == {g \in Goroutines : pc[g] \in {"wait", "wait_recv", "returned"}}

\* C1: on the gRPC backend any number of Stop()/StopWait() calls, by external
\* callers or by export handlers whose callback asked to stop, run the
\* shutdown sequence exactly once: the stoponce body runs at most once, the
\* hook and the graceful stop are each invoked at most once, the hook first;
\* once a call to Stop has returned the sequence has started, and when it has
\* finished both have run exactly once.
C1_ShutdownExactlyOnce ==
    proto = "grpc" =>
        /\ sends <= 1
        /\ hookCalls <= 1
        /\ stopCalls <= hookCalls
        /\ (PastStop # {} => shutPc # "recv")
        /\ (shutPc = "done" => hookCalls = 1 /\ stopCalls = 1)

\* two external calls and a handler-raised one have all returned after one
\* shutdown sequence
C1_Witness ==
    /\ proto = "grpc"
    /\ \A g \in Goroutines : pc[g] = "returned"
    /\ \E g \in Callers : kind[g] = "Stop"
    /\ shutPc = "done"
    /\ hookCalls = 1
    /\ stopCalls = 1

\* C2: on the gRPC backend no StopWait() returns before Serve has returned
\* (and so not before the hook has run), and every StopWait() call that was
\* started eventually returns, however many run concurrently: a call never
\* leaves "returned", so from some point on every started call has returned.
C2_StopWaitReturns ==
    /\ [](\A g \in Goroutines :
            (proto = "grpc" /\ kind[g] = "StopWait" /\ pc[g] = "returned")
                => (servePc = "returned" /\ hookCalls = 1))
    /\ <>[](\A g \in Goroutines :
              (proto = "grpc" /\ kind[g] = "StopWait" /\ pc[g] # "idle")
                  => (pc[g] = "returned"))

\* every goroutine called StopWait() and all of them have returned
C2_Witness ==
    /\ proto = "grpc"
    /\ \A g \in Goroutines : kind[g] = "StopWait" /\ pc[g] = "returned"
    /\ servePc = "returned"

\* C3 (as claimed): on both backends a shutdown invokes the pre-stop hook
\* before the transport's serve loop is terminated.
C3_HookBeforeTermination == stopCalls > 0 => hookCalls > 0

\* C4 (as claimed): on the HTTP backend concurrent Stop()/StopWait() calls and
\* handler-raised stops collapse into one close of the underlying server.
C4_HttpSingleClose == proto = "http" => stopCalls <= 1

(***************************************************************************)
(*                          The MCP trace store                            *)
(***************************************************************************)

(***************************************************************************)
(* Go strings are TLA+ strings; Len, SubSeq and \o act on them.            *)
(***************************************************************************)
CharAt(s, i) == SubSeq(s, i, i)

\* strings.ToLower, one character (ASCII)
LowerChar(c) ==
    LET up == "ABCDEFGHIJKLMNOPQRSTUVWXYZ"
        lo == "abcdefghijklmnopqrstuvwxyz"
        hit == {i \in 1..26 : CharAt(up, i) = c}
    IN  IF hit = {} THEN c ELSE CharAt(lo, CHOOSE i \in hit : TRUE)

RECURSIVE ToLower(_)
ToLower(s) ==
    IF Len(s) = 0 THEN s
    ELSE LowerChar(CharAt(s, 1)) \o ToLower(SubSeq(s, 2, Len(s)))

\* strings.Contains
Contains(s, sub) ==
    \E i \in 1..(Len(s) - Len(sub) + 1) : SubSeq(s, i, i + Len(sub) - 1) = sub

\* strings.HasPrefix
HasPrefix(s, prefix) ==
    Len(s) >= Len(prefix) /\ SubSeq(s, 1, Len(prefix)) = prefix

\* filepath.IsAbs (unix)
IsAbs(path) == HasPrefix(path, "/")

\* strings.Split(path, "/")
RECURSIVE Elements(_)
Elements(path) ==
    LET slashes == {i \in 1..Len(path) : CharAt(path, i) = "/"}
    IN  IF slashes = {} THEN <<path>>
        ELSE LET i == CHOOSE x \in slashes : \A y \in slashes : x <= y
             IN  <<SubSeq(path, 1, i - 1)>>
                 \o Elements(SubSeq(path, i + 1, Len(path)))

\* filepath.Clean, element by element: "" and "." are dropped, ".." removes
\* the element before it, is dropped at the root and kept in a relative path
RECURSIVE Resolve(_, _, _)
Resolve(elems, out, rooted) ==
    IF elems = <<>> THEN out
    ELSE LET e == Head(elems)
         IN  IF e = "" \/ e = "." THEN Resolve(Tail(elems), out, rooted)
             ELSE IF e # ".." THEN Resolve(Tail(elems), Append(out, e), rooted)
             ELSE IF out # <<>> /\ out[Len(out)] # ".."
                    THEN Resolve(Tail(elems), SubSeq(out, 1, Len(out) - 1), rooted)
             ELSE IF rooted THEN Resolve(Tail(elems), out, rooted)
             ELSE Resolve(Tail(elems), Append(out, ".."), rooted)

\* strings.Join(elems, "/")
RECURSIVE JoinElements(_)
JoinElements(elems) ==
    IF elems = <<>> THEN ""
    ELSE IF Len(elems) = 1 THEN Head(elems)
    ELSE Head(elems) \o "/" \o JoinElements(Tail(elems))

\* filepath.Clean (unix)
Clean(path) ==
    LET body == JoinElements(Resolve(Elements(path), <<>>, HasPrefix(path, "/")))
    IN  IF HasPrefix(path, "/") THEN "/" \o body
        ELSE IF body = "" THEN "." ELSE body

\* filepath.Join(root, rel), rel not empty: the non-empty elements joined by
\* "/", then Clean
Join(root, rel) == Clean(IF root = "" THEN rel ELSE root \o "/" \o rel)

IsIn(c, chars) == \E i \in 1..Len(chars) : CharAt(chars, i) = c
IsDigit(c) == IsIn(c, "0123456789")
\* the regexp class \w
IsWord(c) == IsIn(c, "abcdefghijklmnopqrstuvwxyzABCDEFGHIJKLMNOPQRSTUVWXYZ0123456789_")
\* the regexp class [\w\/\.\-]
IsPathChar(c) == IsWord(c) \/ IsIn(c, "/.-")

\* strconv.Atoi of a string of digits
RECURSIVE Atoi(_)
Atoi(s) ==
    IF Len(s) = 0 THEN 0
    ELSE Atoi(SubSeq(s, 1, Len(s) - 1)) * 10
         + (CHOOSE d \in 0..9 : CharAt("0123456789", d + 1) = CharAt(s, Len(s)))

\* the end (exclusive) of the longest run of characters of a class from i
RECURSIVE RunEnd(_, _, _)
RunEnd(s, i, digitsOnly) ==
    IF i > Len(s) THEN i
    ELSE IF (IF digitsOnly THEN IsDigit(CharAt(s, i)) ELSE IsPathChar(CharAt(s, i)))
           THEN RunEnd(s, i + 1, digitsOnly)
           ELSE i

(***************************************************************************)
(* regexp `([\w\/\.\-]+\.[\w]+):(\d+)`, FindAllStringSubmatch: the         *)
(* leftmost matches, one after the other.  A match is a run of path        *)
(* characters holding a dot that is neither its first nor its last         *)
(* character and is followed by word characters only, then ":" and digits. *)
(***************************************************************************)
RECURSIVE FindAllFileLine(_, _)
FindAllFileLine(s, from) ==
    IF from > Len(s) THEN <<>>
    ELSE IF ~IsPathChar(CharAt(s, from)) THEN FindAllFileLine(s, from + 1)
    ELSE
        LET e == RunEnd(s, from, FALSE)
            dots == {d \in (from + 1)..(e - 2) :
                        /\ CharAt(s, d) = "."
                        /\ \A k \in (d + 1)..(e - 1) : IsWord(CharAt(s, k))}
            de == RunEnd(s, e + 1, TRUE)
        IN  IF dots # {} /\ e <= Len(s) /\ CharAt(s, e) = ":" /\ de > e + 1
              THEN <<[path |-> SubSeq(s, from, e - 1),
                      line |-> Atoi(SubSeq(s, e + 1, de - 1))]>>
                   \o FindAllFileLine(s, de)
              ELSE FindAllFileLine(s, e)


\* hex.EncodeToString and fmt.Sprintf("%x", ...) of a byte slice
HexDigit(n) == CharAt("0123456789abcdef", n + 1)

RECURSIVE EncodeToString(_)
EncodeToString(bytes) ==
    IF bytes = <<>> THEN ""
    ELSE HexDigit(Head(bytes) \div 16) \o HexDigit(Head(bytes) % 16)
         \o EncodeToString(Tail(bytes))

(***************************************************************************)
(* CodeAnalyzer                                                            *)
(***************************************************************************)
\* CodeAnalyzer.projectRoot (MCPConfig.ProjectRoot) of the server of the
\* trace store; the paths its spans name are not on its disk
projectRoot == "/proj"

\* the value of an unset string field
NoString == ""

\* a CodeAnalyzer for a project root, with the files it finds on disk
CodeAnalyzer(root, files) == [projectRoot |-> root, files |-> files]

isFileInProject(ca, path) ==
    IF ca.projectRoot = "" THEN TRUE ELSE HasPrefix(path, ca.projectRoot)

\* the attribute keys extractFilePathsFrom* look at
IsFileKey(key) ==
    Contains(ToLower(key), "file") \/ Contains(ToLower(key), "path")

\* the first non-empty operation/action attribute, lower-cased, else "unknown"
RECURSIVE OperationAttr(_)
OperationAttr(attrs) ==
    IF attrs = <<>> THEN "unknown"
    ELSE LET a == Head(attrs)
         IN  IF /\ \/ Contains(ToLower(a.Key), "operation")
                   \/ Contains(ToLower(a.Key), "action")
                /\ a.Value # ""
               THEN ToLower(a.Value)
               ELSE OperationAttr(Tail(attrs))

inferOperationFromSpan(span) ==
    LET spanName == ToLower(span.Name)
    IN  IF Contains(spanName, "read") \/ Contains(spanName, "get") THEN "read"
        ELSE IF \/ Contains(spanName, "write") \/ Contains(spanName, "put")
                \/ Contains(spanName, "save") \/ Contains(spanName, "update")
               THEN "write"
        ELSE IF Contains(spanName, "exec") \/ Contains(spanName, "run") THEN "exec"
        ELSE IF Contains(spanName, "delete") \/ Contains(spanName, "remove")
               THEN "delete"
        ELSE OperationAttr(span.Attributes)

inferOperationFromEvent(event) ==
    LET eventName == ToLower(event.Name)
    IN  IF Contains(eventName, "read") \/ Contains(eventName, "get") THEN "read"
        ELSE IF \/ Contains(eventName, "write") \/ Contains(eventName, "put")
                \/ Contains(eventName, "save") \/ Contains(eventName, "update")
               THEN "write"
        ELSE IF Contains(eventName, "exec") \/ Contains(eventName, "run") THEN "exec"
        ELSE IF Contains(eventName, "delete") \/ Contains(eventName, "remove")
               THEN "delete"
        ELSE IF Contains(eventName, "error") \/ Contains(eventName, "exception")
               THEN "error"
        ELSE OperationAttr(event.Attributes)

\* a CodeSpanContext; the fields a constructor does not set keep their zero value
CodeSpanContext(filePath, lineStart, lineEnd, spanID, traceID, operation) ==
    [FilePath |-> filePath, LineStart |-> lineStart, LineEnd |-> lineEnd,
     SpanID |-> spanID, TraceID |-> traceID, Operation |-> operation,
     CodeSnapshot |-> <<>>]

\* the number of lines of a file on disk (each short enough for bufio.Scanner)
FileLength(path) ==
    IF path = "/proj/handler.go" THEN 45
    ELSE IF path = "/proj/app.go" THEN 30
    ELSE IF path = "handler.go" THEN 60
    ELSE 0

\* fmt.Sprintf("%d: %s", lineNum, scanner.Text()): the prefix and the line of
\* the file (named by its position) it is put in front of
SnippetLine(lineNum, text) == [prefix |-> lineNum, text |-> text]

\* the scanner loop: lineNum counts the lines read; a line is captured when
\* lineStart - 5 <= lineNum <= lineEnd; the loop ends with the file or after
\* the first line past lineEnd
RECURSIVE ScanLines(_, _, _, _, _)
ScanLines(lineNum, length, lineStart, lineEnd, codeLines) ==
    IF lineNum >= length THEN codeLines
    ELSE LET n == lineNum + 1
             captured == IF n >= lineStart - 5 /\ n <= lineEnd
                           THEN Append(codeLines, SnippetLine(n, n))
                           ELSE codeLines
         IN  IF n > lineEnd THEN captured
             ELSE ScanLines(n, length, lineStart, lineEnd, captured)

\* an enrichWithFileContents whose snippet begins at LineStart
enrichWithoutLead(ca, context) ==
    IF context.FilePath = "" \/ context.FilePath \notin ca.files THEN context
    ELSE LET lineStart == IF context.LineStart <= 0 THEN 1 ELSE context.LineStart
             lineEnd == IF context.LineEnd <= lineStart THEN lineStart + 20
                        ELSE context.LineEnd
             capped == IF lineEnd - lineStart > 50 THEN lineStart + 50 ELSE lineEnd
         IN  [context EXCEPT !.LineStart = lineStart,
                             !.LineEnd = capped,
                             !.CodeSnapshot =
                                 ScanLines(0, FileLength(context.FilePath),
                                           lineStart + 5, capped, <<>>)]

\* enrichWithFileContents: nothing for a file that is not there; else a start
\* of 0 or less becomes 1, an end at or before the start becomes start + 20,
\* an end more than 50 past the start becomes start + 50, and the snippet is
\* read from the file.  (The function name inferred from the snippet is not
\* modelled.)
enrichWithFileContents(ca, context) ==
    IF context.FilePath = "" \/ context.FilePath \notin ca.files THEN context
    ELSE LET lineStart == IF context.LineStart <= 0 THEN 1 ELSE context.LineStart
             lineEnd == IF context.LineEnd <= lineStart THEN lineStart + 20
                        ELSE context.LineEnd
             capped == IF lineEnd - lineStart > 50 THEN lineStart + 50 ELSE lineEnd
         IN  [context EXCEPT !.LineStart = lineStart,
                             !.LineEnd = capped,
                             !.CodeSnapshot =
                                 ScanLines(0, FileLength(context.FilePath),
                                           lineStart, capped, <<>>)]

\* the contexts of the attributes, in order
RECURSIVE FileAttrContexts(_, _, _, _, _)
FileAttrContexts(ca, attrs, spanID, traceID, operation) ==
    IF attrs = <<>> THEN <<>>
    ELSE LET a == Head(attrs)
             rest == FileAttrContexts(ca, Tail(attrs), spanID, traceID, operation)
         IN  IF IsFileKey(a.Key) /\ a.Value # "" /\ IsAbs(a.Value)
                /\ isFileInProject(ca, a.Value)
               THEN <<enrichWithFileContents(ca,
                        CodeSpanContext(a.Value, 0, 0, spanID, traceID, operation))>>
                    \o rest
               ELSE rest

\* extractFilePathsFromSpan: SpanID and TraceID are fmt.Sprintf("%x", id)
extractFilePathsFromSpan(ca, span) ==
    FileAttrContexts(ca, span.Attributes, EncodeToString(span.SpanId),
                     EncodeToString(span.TraceId), inferOperationFromSpan(span))

\* extractFilePathsFromEvent: SpanID and TraceID are left unset
extractFilePathsFromEvent(ca, event) ==
    FileAttrContexts(ca, event.Attributes, NoString, NoString,
                     inferOperationFromEvent(event))

\* the value of the first stack_trace / stacktrace attribute, else ""
RECURSIVE StackTraceAttr(_)
StackTraceAttr(attrs) ==
    IF attrs = <<>> THEN ""
    ELSE IF ToLower(Head(attrs).Key) \in {"stack_trace", "stacktrace"}
           THEN Head(attrs).Value
           ELSE StackTraceAttr(Tail(attrs))

\* a loop over the matches that stops at the first one outside the project
RECURSIVE StackContextsUntilOutside(_, _)
StackContextsUntilOutside(ca, matches) ==
    IF matches = <<>> THEN <<>>
    ELSE LET m == Head(matches)
             filePath == IF IsAbs(m.path) THEN m.path
                         ELSE Join(ca.projectRoot, m.path)
         IN  IF isFileInProject(ca, filePath)
               THEN <<enrichWithFileContents(ca,
                        CodeSpanContext(filePath, m.line, m.line + 10,
                                        NoString, NoString, "exception"))>>
                    \o StackContextsUntilOutside(ca, Tail(matches))
               ELSE <<>>

\* the loop over the matches of the regexp
RECURSIVE StackContexts(_, _)
StackContexts(ca, matches) ==
    IF matches = <<>> THEN <<>>
    ELSE LET m == Head(matches)
             filePath == IF IsAbs(m.path) THEN m.path
                         ELSE Join(ca.projectRoot, m.path)
         IN  (IF isFileInProject(ca, filePath)
                THEN <<enrichWithFileContents(ca,
                         CodeSpanContext(filePath, m.line, m.line + 10,
                                         NoString, NoString, "exception"))>>
                ELSE <<>>)
             \o StackContexts(ca, Tail(matches))

processStackTrace(ca, event) ==
    LET stackTrace == StackTraceAttr(event.Attributes)
    IN  IF stackTrace = "" THEN <<>>
        ELSE StackContexts(ca, FindAllFileLine(stackTrace, 1))

RECURSIVE EventContexts(_, _)
EventContexts(ca, events) ==
    IF events = <<>> THEN <<>>
    ELSE LET event == Head(events)
         IN  (IF event.Name = "exception" \/ Contains(ToLower(event.Name), "error")
                THEN processStackTrace(ca, event) ELSE <<>>)
             \o extractFilePathsFromEvent(ca, event)
             \o EventContexts(ca, Tail(events))

AnalyzeSpan(ca, span, events) ==
    extractFilePathsFromSpan(ca, span) \o EventContexts(ca, events)

(***************************************************************************)
(* TraceStore                                                              *)
(***************************************************************************)
\* the "no parent" sentinel AddSpan compares ParentID with
ZeroParent == "0000000000000000"

\* a map with key k set to v
MapPut(m, k, v) == [x \in DOMAIN m \cup {k} |-> IF x = k THEN v ELSE m[x]]
\* a map without the keys ks
MapDrop(m, ks) == [x \in DOMAIN m \ ks |-> m[x]]

\* span counts over all traces
RECURSIVE SumSpans(_, _)
SumSpans(tr, ids) ==
    IF ids = {} THEN 0
    ELSE LET id == CHOOSE x \in ids : TRUE
         IN  Cardinality(DOMAIN tr[id].Spans) + SumSpans(tr, ids \ {id})

TotalSpans(tr) == SumSpans(tr, DOMAIN tr)

\* the elements of a sequence that satisfy keep, in order
RECURSIVE FilterTraceID(_, _)
FilterTraceID(contexts, id) ==
    IF contexts = <<>> THEN <<>>
    ELSE (IF Head(contexts).TraceID # id THEN <<Head(contexts)>> ELSE <<>>)
         \o FilterTraceID(Tail(contexts), id)

(***************************************************************************)
(* HandleSpan builds the SpanData: ParentID is the hex of ParentSpanId,    *)
(* the times come from the span, the contexts from AnalyzeSpan.            *)
(***************************************************************************)
NewSpanData(span) ==
    [TraceID      |-> EncodeToString(span.TraceId),
     SpanID       |-> EncodeToString(span.SpanId),
     Name         |-> span.Name,
     ParentID     |-> EncodeToString(span.ParentSpanId),
     Children     |-> <<>>,
     FileContexts |-> AnalyzeSpan(CodeAnalyzer(projectRoot, {}), span, span.Events),
     StartTime    |-> span.StartTimeUnixNano,
     EndTime      |-> span.EndTimeUnixNano]

(***************************************************************************)
(* AddSpan up to the call of cleanupOldTraces.  RootSpan is a pointer:     *)
(* RootStored tells whether it points at the record that is in Spans under *)
(* its span id, or at a record a later delivery has replaced there.        *)
(***************************************************************************)
\* a test that takes only the empty parent id for "no parent"
IsRootSpanEmptyOnly(spanData) == Len(spanData.ParentID) = 0

IsRootSpan(spanData) ==
    Len(spanData.ParentID) = 0 \/ spanData.ParentID = ZeroParent

\* a store that keeps the first record delivered under a span id
StoreSpanKeepFirst(trace, spanData) ==
    IF spanData.SpanID \in DOMAIN trace.Spans
      THEN trace
      ELSE [trace EXCEPT !.Spans = MapPut(@, spanData.SpanID, spanData)]

\* trace.Spans[spanID] = spanData: when RootSpan pointed at the record that
\* was stored under spanID, it now points at a record no longer in Spans
StoreSpan(trace, spanData) ==
    [trace EXCEPT
       !.Spans = MapPut(@, spanData.SpanID, spanData),
       !.RootStored = IF trace.RootSpan.SpanID = spanData.SpanID THEN FALSE ELSE @]

\* the root span, or the child list of the parent
LinkSpan(trace, spanData) ==
    LET spanID == spanData.SpanID
        parentID == spanData.ParentID
        t1 == StoreSpan(trace, spanData)
    IN  IF IsRootSpan(spanData)
          THEN [t1 EXCEPT !.RootSpan = spanData, !.RootStored = TRUE]
          ELSE IF parentID \in DOMAIN t1.Spans
                 THEN LET parent == [t1.Spans[parentID] EXCEPT
                                       !.Children = Append(@, spanID)]
                      IN  [t1 EXCEPT
                             !.Spans = MapPut(@, parentID, parent),
                             !.RootSpan = IF t1.RootStored
                                             /\ t1.RootSpan.SpanID = parentID
                                            THEN parent ELSE @]
                 ELSE t1

\* a loop that takes only the operation "error" for an error
RECURSIVE IndexContextsErrorOnly(_, _, _, _)
IndexContextsErrorOnly(tr, idx, traceID, contexts) ==
    IF contexts = <<>> THEN [traces |-> tr, spansByFile |-> idx]
    ELSE LET fileCtx == Head(contexts)
             filePath == fileCtx.FilePath
             bucket == IF filePath \in DOMAIN idx THEN idx[filePath] ELSE <<>>
             trace == [tr[traceID] EXCEPT
                         !.Files = @ \cup {filePath},
                         !.Status = IF fileCtx.Operation = "error"
                                      THEN "error" ELSE @]
         IN  IndexContextsErrorOnly(MapPut(tr, traceID, trace),
                                    MapPut(idx, filePath, Append(bucket, fileCtx)),
                                    traceID, Tail(contexts))

\* the loop over spanData.FileContexts
RECURSIVE IndexContexts(_, _, _, _)
IndexContexts(tr, idx, traceID, contexts) ==
    IF contexts = <<>> THEN [traces |-> tr, spansByFile |-> idx]
    ELSE LET fileCtx == Head(contexts)
             filePath == fileCtx.FilePath
             bucket == IF filePath \in DOMAIN idx THEN idx[filePath] ELSE <<>>
             trace == [tr[traceID] EXCEPT
                         !.Files = @ \cup {filePath},
                         !.Status = IF fileCtx.Operation \in {"error", "exception"}
                                      THEN "error" ELSE @]
         IN  IndexContexts(MapPut(tr, traceID, trace),
                           MapPut(idx, filePath, Append(bucket, fileCtx)),
                           traceID, Tail(contexts))

UpsertSpan(tr, idx, spanData) ==
    LET traceID == spanData.TraceID
        trace0 == IF traceID \in DOMAIN tr THEN tr[traceID]
                  ELSE [TraceID    |-> traceID,
                        RootSpan   |-> NoSpan,
                        RootStored |-> FALSE,
                        Spans      |-> EmptyMap,
                        Files      |-> {},
                        StartTime  |-> spanData.StartTime,
                        EndTime    |-> spanData.EndTime,
                        Status     |-> ""]
        trace1 == [trace0 EXCEPT
                     !.StartTime = IF spanData.StartTime < @ THEN spanData.StartTime ELSE @,
                     !.EndTime = IF spanData.EndTime > @ THEN spanData.EndTime ELSE @]
    IN  IndexContexts(MapPut(tr, traceID, LinkSpan(trace1, spanData)), idx,
                      traceID, spanData.FileContexts)

(***************************************************************************)
(* cleanupOldTraces.  order1 and order2 are the orders in which the two    *)
(* `range store.traces` loops of a run visit the map: Go leaves them       *)
(* unspecified.                                                            *)
(***************************************************************************)
\* a retention pass that also marks the traces whose age equals the retention
RetentionPassInclusive(tr, order, nowT, ret) ==
    SelectSeq(order, LAMBDA id : ret > 0 /\ nowT - tr[id].EndTime >= ret)
\* the retention pass: the ids whose age exceeds the retention, in visit order
RECURSIVE RetentionPass(_, _, _, _)
RetentionPass(tr, order, nowT, ret) ==
    IF order = <<>> THEN <<>>
    ELSE (IF ret > 0 /\ nowT - tr[Head(order)].EndTime > ret
            THEN <<Head(order)>> ELSE <<>>)
         \o RetentionPass(tr, Tail(order), nowT, ret)

Swap(a, i, j) == [a EXCEPT ![i] = a[j], ![j] = a[i]]

\* for j := i + 1; j < len(ages); j++ { if ages[i].age.After(ages[j].age) { swap } }
RECURSIVE SortInner(_, _, _)
SortInner(ages, i, j) ==
    IF j > Len(ages) THEN ages
    ELSE SortInner(IF ages[i].age > ages[j].age THEN Swap(ages, i, j) ELSE ages,
                   i, j + 1)

\* for i := 0; i < len(ages); i++ { ... }
RECURSIVE SortOuter(_, _)
SortOuter(ages, i) ==
    IF i > Len(ages) THEN ages ELSE SortOuter(SortInner(ages, i, i + 1), i + 1)

SortByAge(ages) == SortOuter(ages, 1)

\* take traces, oldest first, until the total is at most maxS
RECURSIVE TakeOldest(_, _, _, _)
TakeOldest(tr, ages, totalSpans, maxS) ==
    IF ages = <<>> \/ totalSpans <= maxS THEN <<>>
    ELSE <<Head(ages).id>>
         \o TakeOldest(tr, Tail(ages),
                       totalSpans - Cardinality(DOMAIN tr[Head(ages).id].Spans), maxS)

\* a size pass that takes the traces in the order the map yields them
SizePassUnsorted(tr, order, old, maxS) ==
    IF maxS > 0 /\ TotalSpans(tr) > maxS /\ Len(old) = 0
      THEN TakeOldest(tr, [k \in 1..Len(order) |->
                              [id |-> order[k], age |-> tr[order[k]].EndTime]],
                      TotalSpans(tr), maxS)
      ELSE <<>>

\* the size pass: runs only when the retention pass marked nothing
SizePass(tr, order, old, maxS) ==
    IF maxS > 0 /\ TotalSpans(tr) > maxS /\ Len(old) = 0
      THEN TakeOldest(tr, SortByAge([k \in 1..Len(order) |->
                                        [id |-> order[k], age |-> tr[order[k]].EndTime]]),
                      TotalSpans(tr), maxS)
      ELSE <<>>

\* remove trace id's entries from the buckets of the files it touched
RECURSIVE PruneFiles(_, _, _)
PruneFiles(idx, files, id) ==
    IF files = {} THEN idx
    ELSE LET file == CHOOSE f \in files : TRUE
             newSpans == IF file \in DOMAIN idx
                           THEN FilterTraceID(idx[file], id) ELSE <<>>
         IN  PruneFiles(IF Len(newSpans) > 0 THEN MapPut(idx, file, newSpans)
                                             ELSE MapDrop(idx, {file}),
                        files \ {file}, id)

\* the removal loop over oldTraceIDs
RECURSIVE RemoveTraces(_, _, _)
RemoveTraces(tr, idx, oldTraceIDs) ==
    IF oldTraceIDs = <<>> THEN [traces |-> tr, spansByFile |-> idx]
    ELSE LET id == Head(oldTraceIDs)
         IN  RemoveTraces(MapDrop(tr, {id}),
                          PruneFiles(idx, tr[id].Files, id),
                          Tail(oldTraceIDs))

\* a sweep without the return for "no limits set" and without the test
\* that a retention window is configured
MarkedUnguarded(tr, order1, order2, nowT, maxS, ret) ==
    [old   |-> SelectSeq(order1, LAMBDA id : nowT - tr[id].EndTime > ret),
     sized |-> <<>>]

\* what one run marks, by retention and by size; nothing when no limit is set
Marked(tr, order1, order2, nowT, maxS, ret) ==
    IF maxS <= 0 /\ ret <= 0
      THEN [old |-> <<>>, sized |-> <<>>]
      ELSE LET old == RetentionPass(tr, order1, nowT, ret)
           IN  [old |-> old, sized |-> SizePass(tr, order2, old, maxS)]

(***************************************************************************)
(* The spans the model delivers.                                           *)
(***************************************************************************)
\* calls of HandleSpan in a behaviour
MaxAdds == 2
\* the clock runs from 0 to MaxNow
MaxNow == 2
\* the configured span cap, when one is configured
SpanCap == 1
\* the configured retention window, when one is configured
Window == 1

\* a 16-byte trace id and an 8-byte span id
TraceId(n) == <<0, 0, 0, 0, 0, 0, 0, 0, 0, 0, 0, 0, 0, 0, 0, n>>
SpanId(n) == <<0, 0, 0, 0, 0, 0, 0, n>>
\* ParentSpanId of a span without parent: unset, or all zero
NoParent == <<>>

\* a span that names no file
PlainSpan == [Name |-> "root-op", Attributes |-> <<>>, Events |-> <<>>]
\* a span that names no file, as a child is named
ChildSpan == [Name |-> "child-op", Attributes |-> <<>>, Events |-> <<>>]
\* a span with a file attribute
FileSpan ==
    [Name |-> "read-config",
     Attributes |-> <<[Key |-> "code.filepath", Value |-> "/proj/a.go"]>>,
     Events |-> <<>>]
\* a span with an exception event that carries a stack trace
FailedSpan ==
    [Name |-> "handle",
     Attributes |-> <<>>,
     Events |-> <<[Name |-> "exception",
                   Attributes |-> <<[Key |-> "stack_trace",
                                     Value |-> "handler.go:42: nil pointer"]>>]>>]

Proto(t, s, parent, body) ==
    [TraceId |-> TraceId(t), SpanId |-> SpanId(s), ParentSpanId |-> parent,
     Name |-> body.Name, Attributes |-> body.Attributes, Events |-> body.Events]

\* trace 1: a root span 1 (which a later delivery may give the parent 2) and
\* its child span 2; trace 2: a root span
Protos ==
    {Proto(1, 1, NoParent, b) : b \in {PlainSpan, FileSpan, FailedSpan}}
    \cup {Proto(1, 1, SpanId(0), PlainSpan)}
    \cup {Proto(1, 1, SpanId(2), PlainSpan)}
    \cup {Proto(1, 2, SpanId(1), b) : b \in {ChildSpan, FileSpan, FailedSpan}}
    \cup {Proto(2, 1, NoParent, b) : b \in {PlainSpan, FileSpan}}

\* a failed span that arrives without a trace id: the field is missing on the
\* wire, and nothing between the decoder and AddSpan looks at it
Unidentified == [Proto(1, 1, NoParent, FailedSpan) EXCEPT !.TraceId = <<>>]

\* a span ended just now, or ended at time 0 and is delivered late
EndTimes(nowT) == {nowT, 0}

\* the orders in which a `range` loop may visit the keys of a map
Orders(m) ==
    LET n == Cardinality(DOMAIN m)
    IN  {o \in [1..n -> DOMAIN m] : \A i, j \in 1..n : i # j => o[i] # o[j]}

Range(seq) == {seq[i] : i \in 1..Len(seq)}

(***************************************************************************)
(* NewMCPServer: empty maps, the limits of the configuration.  The OTLP    *)
(* server in front of the store is built and is not asked to stop.         *)
(***************************************************************************)
NewMCPServer ==
    /\ traces = EmptyMap
    /\ spansByFile = EmptyMap
    /\ maxSpans \in {0, SpanCap}
    /\ retention \in {0, Window}
    /\ now = 0
    /\ nAdds = 0
    /\ call = NoCall
    /\ sweep = NoSweep
    /\ NoDispatch
    /\ proto = "grpc"
    /\ logCallback = FALSE
    /\ pc = [g \in Goroutines |-> "idle"]
    /\ kind = [g \in Goroutines |-> "none"]
    /\ hpc = [h \in Handlers |-> "idle"]
    /\ hsig = [h \in Handlers |-> "none"]
    /\ NoRequest
    /\ NoClients
    /\ NoAnalysis
    /\ NoAnswer
    /\ NoLocks
    /\ hstatus = [h \in Handlers |-> 0]
    /\ servePc = "idle"
    /\ stoponce = FreshOnce
    /\ doneonce = FreshOnce
    /\ stopdone = 0
    /\ shutPc = "recv"
    /\ inShutdown = FALSE
    /\ hookCalls = 0
    /\ stopCalls = 0
    /\ sends = 0

\* the span on the wire: a delivery with its times (instantaneous spans)
WireSpan(p, endTime) ==
    [TraceId |-> p.TraceId, SpanId |-> p.SpanId,
     ParentSpanId |-> p.ParentSpanId, Name |-> p.Name,
     Attributes |-> p.Attributes, Events |-> p.Events,
     StartTimeUnixNano |-> endTime, EndTimeUnixNano |-> endTime]

\* the SpanData HandleSpan builds for each delivery of the model
Built ==
    [p \in Protos \cup {Unidentified}, endTime \in 0..MaxNow |->
        NewSpanData(WireSpan(p, endTime))]

\* what AddSpan finds under the record's (trace id, span id) on entry
Found(tr, spanData) ==
    LET existed == /\ spanData.TraceID \in DOMAIN tr
                   /\ spanData.SpanID \in DOMAIN tr[spanData.TraceID].Spans
    IN  [span    |-> spanData,
         existed |-> existed,
         same    |-> /\ existed
                     /\ [tr[spanData.TraceID].Spans[spanData.SpanID]
                           EXCEPT !.Children = <<>>] = spanData,
         count   |-> IF spanData.TraceID \in DOMAIN tr
                       THEN Cardinality(DOMAIN tr[spanData.TraceID].Spans)
                       ELSE 0]

\* the websocket connections that may subscribe
MaxClients == 2
Conns == 1..MaxClients

\* a broadcast that gives up at the first failing client
RECURSIVE NotifyUntilError(_, _, _, _, _)
NotifyUntilError(order, i, cl, writes, failing) ==
    IF i > Len(order) THEN [clients |-> cl, writes |-> writes]
    ELSE LET client == order[i]
             written == [writes EXCEPT ![client] = @ + 1]
         IN  IF client \in failing
               THEN [clients |-> MapDrop(cl, {client}), writes |-> written]
               ELSE NotifyUntilError(order, i + 1, cl, written, failing)

\* for client := range mcp.clients: WriteMessage; on an error client.Close()
\* and delete(mcp.clients, client).  `order` is the order of the range,
\* `failing` the clients whose WriteMessage returns an error.
RECURSIVE NotifyLoop(_, _, _, _, _)
NotifyLoop(order, i, cl, writes, failing) ==
    IF i > Len(order) THEN [clients |-> cl, writes |-> writes]
    ELSE LET client == order[i]
             written == [writes EXCEPT ![client] = @ + 1]
         IN  IF client \in failing
               THEN NotifyLoop(order, i + 1, MapDrop(cl, {client}), written, failing)
               ELSE NotifyLoop(order, i + 1, cl, written, failing)

\* notifyClients: the message, then the loop under clientsLock
notifyClients(cl, spanData, order, failing) ==
    LET message == [Type    |-> "new_span",
                    SpanID  |-> spanData.SpanID,
                    TraceID |-> spanData.TraceID]
        done == NotifyLoop(order, 1, cl, [c \in DOMAIN cl |-> 0], failing)
    IN  [clients |-> done.clients,
         notice  |-> [message |-> message, before |-> DOMAIN cl,
                      failing |-> failing, writes |-> done.writes]]

(***************************************************************************)
(* HandleSpan: build the SpanData, AddSpan (the upsert, then               *)
(* cleanupOldTraces under the same lock), notifyClients, return false.     *)
(***************************************************************************)
HandleSpanCall(p, endTime) ==
    /\ LET spanData == Built[p, endTime]
           added == UpsertSpan(traces, spansByFile, spanData)
       IN  /\ \E order1, order2 \in Orders(added.traces) :
                LET m == Marked(added.traces, order1, order2, now, maxSpans, retention)
                    kept == RemoveTraces(added.traces, added.spansByFile,
                                         m.old \o m.sized)
                IN  /\ traces' = kept.traces
                    /\ spansByFile' = kept.spansByFile
                    /\ call' = Found(traces, spanData)
                    /\ sweep' = [old   |-> Range(m.old),
                                 sized |-> Range(m.sized),
                                 ends  |-> [id \in DOMAIN added.traces |->
                                               added.traces[id].EndTime]]
           /\ \E order \in Orders(clients) : \E failing \in SUBSET DOMAIN clients :
                LET told == notifyClients(clients, spanData, order, failing)
                IN  /\ clients' = told.clients
                    /\ notice' = told.notice
    /\ nAdds' = nAdds + 1
    /\ UNCHANGED <<maxSpans, retention, now>>
    /\ UNCHANGED <<srvVars, dispVars, reqVars, anVars, qVars, lkVars>>

\* the calls of a behaviour are bounded
HandleSpan(p, endTime) == nAdds < MaxAdds /\ HandleSpanCall(p, endTime)

\* time passes
Tick ==
    /\ now < MaxNow
    /\ now' = now + 1
    /\ UNCHANGED <<traces, spansByFile, maxSpans, retention, nAdds, call, sweep>>
    /\ UNCHANGED <<srvVars, dispVars, reqVars, wsVars, anVars, qVars, lkVars>>

NextStore ==
    \/ \E p \in Protos : \E endTime \in EndTimes(now) : HandleSpan(p, endTime)
    \/ Tick

SpecStore == NewMCPServer /\ [][NextStore]_vars

(***************************************************************************)
(* The websocket endpoint: handleWebsocket registers the upgraded          *)
(* connection; its reader goroutine removes it when ReadMessage fails.     *)
(***************************************************************************)
\* mcp.clients[conn] = true
handleWebsocket(conn) ==
    /\ conn \notin DOMAIN clients
    /\ clients' = MapPut(clients, conn, TRUE)
    /\ UNCHANGED notice
    /\ UNCHANGED <<srvVars, storeVars, dispVars, reqVars, anVars, qVars, lkVars>>

\* the reader goroutine: ReadMessage fails, delete(mcp.clients, conn)
ReadError(conn) ==
    /\ conn \in DOMAIN clients
    /\ clients' = MapDrop(clients, {conn})
    /\ UNCHANGED notice
    /\ UNCHANGED <<srvVars, storeVars, dispVars, reqVars, anVars, qVars, lkVars>>

\* the spans delivered while observers come and go
ObservedProtos == {Proto(1, 1, NoParent, PlainSpan), Proto(1, 2, SpanId(1), ChildSpan)}

NextObserved ==
    \/ \E p \in ObservedProtos : HandleSpan(p, now)
    \/ \E conn \in Conns : handleWebsocket(conn)
    \/ \E conn \in Conns : ReadError(conn)

SpecObserved == NewMCPServer /\ [][NextObserved]_vars

\* ListFiles: the keys of the file index
ListFiles == DOMAIN spansByFile

(***************************************************************************)
(* Claims about the trace store.                                           *)
(***************************************************************************)
\* occurrences of x in a sequence
Count(seq, x) == Cardinality({i \in 1..Len(seq) : seq[i] = x})

\* the code contexts the spans of a trace hold
HeldContexts(trace) ==
    UNION {Range(trace.Spans[s].FileContexts) : s \in DOMAIN trace.Spans}

\* a call of AddSpan (inside HandleSpan) happens in this step
AddSpanStep == nAdds' = nAdds + 1

\* C5 (as claimed): for spans s1, s2 of one trace with s2.parent = s1.id, once
\* AddSpan has been called for both, parent first or child first, the stored
\* s1 lists s2's id among its children exactly once.
C5_ChildListedOnce ==
    \A id \in DOMAIN traces :
        \A s1, s2 \in DOMAIN traces[id].Spans :
            traces[id].Spans[s2].ParentID = s1
                => Count(traces[id].Spans[s1].Children, s2) = 1

\* C6 (as claimed): AddSpan with a (trace id, span id) that is already stored
\* replaces the stored record by the new one and leaves the span count of the
\* trace as it was.
C6_ReAddReplaces ==
    call.existed =>
        /\ call.span.TraceID \in DOMAIN traces
        /\ traces[call.span.TraceID].Spans[call.span.SpanID] = call.span
        /\ Cardinality(DOMAIN traces[call.span.TraceID].Spans) = call.count

\* C6 (amended): AddSpan with a (trace id, span id) that is already stored
\* replaces the stored record by the new one and leaves the span count of the
\* trace as it was, unless the sweep that ends the call evicts the trace.
C6_ReAddReplacesUnlessEvicted ==
    (call.existed /\ call.span.TraceID \in DOMAIN traces) =>
        /\ call.span.SpanID \in DOMAIN traces[call.span.TraceID].Spans
        /\ traces[call.span.TraceID].Spans[call.span.SpanID] = call.span
        /\ Cardinality(DOMAIN traces[call.span.TraceID].Spans) = call.count

\* a stored span was delivered again with other contents, and its trace is kept
C6_Witness ==
    /\ call.existed
    /\ ~call.same
    /\ call.span.FileContexts # <<>>
    /\ call.span.TraceID \in DOMAIN traces
    /\ call.count = 1

\* C7 (as claimed): AddSpan is an idempotent upsert: delivering the record of
\* the previous call once more (no trace being evicted) leaves the store as
\* the first delivery left it; no child list and no file-index bucket gains
\* an entry.
C7_IdempotentUpsert ==
    [][(/\ AddSpanStep
        /\ call'.existed
        /\ call'.span = call.span
        /\ sweep'.old = {}
        /\ sweep'.sized = {})
            => (traces' = traces /\ spansByFile' = spansByFile)]_vars

\* C8: with maxSpans = 0 and retention = 0 no step removes a trace or a span
\* of a trace, however old it is, and every call of AddSpan leaves its span
\* in the store.
C8_NoLimitsNoRemoval ==
    [][(maxSpans = 0 /\ retention = 0) =>
          /\ \A id \in DOMAIN traces :
                /\ id \in DOMAIN traces'
                /\ DOMAIN traces[id].Spans \subseteq DOMAIN traces'[id].Spans
          /\ AddSpanStep =>
                /\ call'.span.TraceID \in DOMAIN traces'
                /\ call'.span.SpanID \in DOMAIN traces'[call'.span.TraceID].Spans]_vars

\* no limit is set; the clock has run out and every call is made, and a trace
\* that ended at time 0 is still stored next to another one
C8_Witness ==
    /\ maxSpans = 0
    /\ retention = 0
    /\ now = MaxNow
    /\ nAdds = MaxAdds
    /\ Cardinality(DOMAIN traces) = 2
    /\ \E id \in DOMAIN traces : traces[id].EndTime = 0
    /\ call.span.EndTime = MaxNow

\* C9 (as claimed): with retention R > 0, a trace whose end time is older
\* than now - R when the sweep of an AddSpan call runs is absent when the call
\* returns; none of its contexts is left in the file index (unless a kept
\* trace holds an equal one), and ListFiles() names no file that only it
\* referred to.
C9_RetentionEvicts ==
    [][(AddSpanStep /\ retention > 0) =>
          \A id \in DOMAIN sweep'.ends :
              now - sweep'.ends[id] > retention =>
                  LET mine == IF id \in DOMAIN traces
                                THEN HeldContexts(traces[id]) ELSE {}
                      evicted == mine \cup (IF call'.span.TraceID = id
                                              THEN Range(call'.span.FileContexts)
                                              ELSE {})
                      kept == UNION {HeldContexts(traces'[k]) : k \in DOMAIN traces'}
                  IN  /\ id \notin DOMAIN traces'
                      /\ \A c \in evicted \ kept :
                            \A f \in DOMAIN spansByFile' :
                                c \notin Range(spansByFile'[f])
                      /\ \A c \in evicted :
                            (\A k \in kept : k.FilePath # c.FilePath)
                                => c.FilePath \notin ListFiles']_vars

\* C10: with maxSpans = M > 0, when the retention pass of the last AddSpan
\* call marked nothing, at most M spans are stored after the call, and every
\* trace its size pass removed ended no later than every trace that is kept.
C10_SizePassBounds ==
    (maxSpans > 0 /\ nAdds > 0 /\ sweep.old = {}) =>
        /\ TotalSpans(traces) <= maxSpans
        /\ \A r \in sweep.sized :
              \A k \in DOMAIN traces : sweep.ends[r] <= traces[k].EndTime

\* the size pass removed a trace and kept one that ended later
C10_Witness ==
    /\ maxSpans > 0
    /\ sweep.old = {}
    /\ \E r \in sweep.sized :
          \E k \in DOMAIN traces : sweep.ends[r] < traces[k].EndTime
    /\ TotalSpans(traces) = maxSpans

\* C11 (as claimed): after any sequence of AddSpan calls every entry of the
\* file index is a code context held by some span of some stored trace, and
\* no bucket of the index is empty.
C11_IndexIsDerived ==
    \A f \in DOMAIN spansByFile :
        /\ spansByFile[f] # <<>>
        /\ \A c \in Range(spansByFile[f]) :
              \E id \in DOMAIN traces : c \in HeldContexts(traces[id])

(***************************************************************************)
(* The queries of the store: ListTraces and SearchTraces.  The clock of    *)
(* the model counts hours.                                                 *)
(***************************************************************************)
\* the contexts of a span from position i on that are classified as errors
RECURSIVE ErrorContexts(_, _)
ErrorContexts(contexts, file) ==
    IF contexts = <<>> THEN 0
    ELSE (IF /\ (file = NoString \/ Head(contexts).FilePath = file)
             /\ Head(contexts).Operation \in {"error", "exception"}
            THEN 1 ELSE 0)
         + ErrorContexts(Tail(contexts), file)

\* for _, span := range trace.Spans { for _, ctx := range span.FileContexts {...} }
RECURSIVE CountErrors(_, _, _)
CountErrors(trace, spanIDs, file) ==
    IF spanIDs = {} THEN 0
    ELSE LET s == CHOOSE x \in spanIDs : TRUE
         IN  ErrorContexts(trace.Spans[s].FileContexts, file)
             + CountErrors(trace, spanIDs \ {s}, file)

\* ListTraces counts every error context of the trace
ListErrorCount(trace) == CountErrors(trace, DOMAIN trace.Spans, NoString)

\* a count without the test ctx.FilePath == file: every error context of the
\* trace is counted once for each file of the trace
SearchErrorCountPerFile(trace, files) == Cardinality(files) * ListErrorCount(trace)

\* SearchTraces counts, for each file of the trace, the error contexts of that file
RECURSIVE SearchErrorCount(_, _)
SearchErrorCount(trace, files) ==
    IF files = {} THEN 0
    ELSE LET file == CHOOSE f \in files : TRUE
         IN  CountErrors(trace, DOMAIN trace.Spans, file)
             + SearchErrorCount(trace, files \ {file})

\* a TraceDigest; Files is filled in the order the map yields, kept as a set
TraceDigest(id, trace, errorCount) ==
    [TraceID    |-> id,
     Name       |-> IF trace.RootSpan # NoSpan THEN trace.RootSpan.Name ELSE NoString,
     SpanCount  |-> Cardinality(DOMAIN trace.Spans),
     StartTime  |-> trace.StartTime,
     Duration   |-> (trace.EndTime - trace.StartTime) * 3600000,
     Files      |-> trace.Files,
     ErrorCount |-> errorCount]

\* ListTraces: one digest per entry of store.traces, in the order of the range
ListTraces(tr, order) ==
    [k \in 1..Len(order) |->
        TraceDigest(order[k], tr[order[k]], ListErrorCount(tr[order[k]]))]

\* GetTrace: the stored trace, or nil
GetTrace(tr, traceID) == IF traceID \in DOMAIN tr THEN tr[traceID] ELSE NoSpan

\* time.ParseDuration, for durations written in hours ("1h", "24h")
ParseDuration(s) ==
    IF /\ Len(s) >= 2
       /\ CharAt(s, Len(s)) = "h"
       /\ \A i \in 1..(Len(s) - 1) : IsDigit(CharAt(s, i))
      THEN [err |-> FALSE, duration |-> Atoi(SubSeq(s, 1, Len(s) - 1))]
      ELSE [err |-> TRUE, duration |-> 0]

\* the time ranges the requests of the model carry, and what they parse to
TimeRanges == {"", "1h", "soon"}
Durations == [s \in TimeRanges |-> ParseDuration(s)]

\* minTime: zero unless the request has a time range that parses
MinTime(req, nowT) ==
    IF req.TimeRange # "" /\ ~Durations[req.TimeRange].err
      THEN [zero |-> FALSE, t |-> nowT - Durations[req.TimeRange].duration]
      ELSE [zero |-> TRUE, t |-> 0]

\* a search that skips no trace
MatchesAny(trace, req, minTime) == TRUE

\* the three tests of the collection loop that skip a trace
Matches(trace, req, minTime) ==
    /\ ~(~minTime.zero /\ trace.EndTime < minTime.t)
    /\ ~(req.ErrorsOnly /\ trace.Status # "error")
    /\ (Len(req.Files) > 0 => \E file \in trace.Files : file \in Range(req.Files))

\* a collection loop that stops one digest after the cap
RECURSIVE CollectOverCap(_, _, _, _, _, _)
CollectOverCap(tr, req, minTime, order, k, n) ==
    IF k > Len(order) THEN <<>>
    ELSE IF ~Matches(tr[order[k]], req, minTime)
           THEN CollectOverCap(tr, req, minTime, order, k + 1, n)
    ELSE <<TraceDigest(order[k], tr[order[k]],
                       SearchErrorCount(tr[order[k]], tr[order[k]].Files))>>
         \o (IF req.Limit > 0 /\ n + 1 > req.Limit
               THEN <<>>
               ELSE CollectOverCap(tr, req, minTime, order, k + 1, n + 1))

\* the collection loop from position k of the range on; n digests are collected
RECURSIVE Collect(_, _, _, _, _, _)
Collect(tr, req, minTime, order, k, n) ==
    IF k > Len(order) THEN <<>>
    ELSE IF ~Matches(tr[order[k]], req, minTime)
           THEN Collect(tr, req, minTime, order, k + 1, n)
    ELSE <<TraceDigest(order[k], tr[order[k]],
                       SearchErrorCount(tr[order[k]], tr[order[k]].Files))>>
         \o (IF req.Limit > 0 /\ n + 1 >= req.Limit
               THEN <<>>
               ELSE Collect(tr, req, minTime, order, k + 1, n + 1))

\* SearchTraces: the Traces of the response
SearchTraces(tr, req, order, nowT) ==
    Collect(tr, req, MinTime(req, nowT), order, 1, 0)

\* the search requests of the model
SearchRequests ==
    [Files      : {<<>>, <<"/proj/a.go">>, <<"/proj/handler.go", "/proj/none.go">>},
     TimeRange  : TimeRanges,
     ErrorsOnly : BOOLEAN,
     Limit      : {0, 1}]

\* C12: every trace SearchTraces returns for a request with errorsOnly has
\* status "error", and every trace it returns for a request with a file
\* filter has one of the listed files in its Files set.
C12_SearchFilters ==
    \A req \in SearchRequests : \A order \in Orders(traces) :
        LET found == SearchTraces(traces, req, order, now)
        IN  \A k \in 1..Len(found) :
                /\ found[k].TraceID \in DOMAIN traces
                /\ req.ErrorsOnly => traces[found[k].TraceID].Status = "error"
                /\ req.Files # <<>> =>
                      \E f \in Range(req.Files) : f \in traces[found[k].TraceID].Files

\* two traces are stored; a search for errors in handler.go returns one of
\* them, and so does a search for a.go
C12_Witness ==
    /\ Cardinality(DOMAIN traces) = 2
    /\ \E order \in Orders(traces) :
          /\ Len(SearchTraces(traces,
                     [Files |-> <<"/proj/handler.go", "/proj/none.go">>,
                      TimeRange |-> "", ErrorsOnly |-> TRUE, Limit |-> 0],
                     order, now)) = 1
          /\ Len(SearchTraces(traces,
                     [Files |-> <<"/proj/a.go">>,
                      TimeRange |-> "", ErrorsOnly |-> FALSE, Limit |-> 0],
                     order, now)) = 1

\* the stored spans of a trace that are root spans
RootsOf(trace) == {s \in DOMAIN trace.Spans : IsRootSpan(trace.Spans[s])}

\* the (span, position) pairs of the contexts of a trace classified as errors
ErrorsOf(trace) ==
    UNION {{<<s, i>> : i \in {j \in 1..Len(trace.Spans[s].FileContexts) :
                                trace.Spans[s].FileContexts[j].Operation
                                    \in {"error", "exception"}}} :
           s \in DOMAIN trace.Spans}

MaxResources == 2
MaxScopes == 2
MaxRecords == 1

\* the sequences over S of length at most n
SeqsUpTo(S, n) == UNION {[1..k -> S] : k \in 0..n}

\* a request, as the number of records of each scope of each resource
Requests == SeqsUpTo(SeqsUpTo(0..MaxRecords, MaxScopes), MaxResources)

\* the record the loops reach next when record i of scope s of resource r
\* comes next, were it to exist; <<0, 0, 0>> when the loops end
RECURSIVE NextLeaf(_, _, _, _)
NextLeaf(req, r, s, i) ==
    IF r > Len(req) THEN <<0, 0, 0>>
    ELSE IF s > Len(req[r]) THEN NextLeaf(req, r + 1, 1, 1)
    ELSE IF i > req[r][s] THEN NextLeaf(req, r, s + 1, 1)
    ELSE <<r, s, i>>

\* the server and the store stay as built while a request is dispatched
\* Export: map[string]string{"proto": "grpc"}
GrpcMeta == [proto |-> "grpc"]

\* req.Proto of the requests a net/http server without TLS serves
HttpProtos == {"HTTP/1.0", "HTTP/1.1"}

\* handleTraces, handleLogs: the meta map built from the request
HttpMeta(method, reqProto, ctype, host, uri) ==
    [method |-> method, proto |-> reqProto, contentType |-> ctype,
     host |-> host, uri |-> uri]

DoCallbackEntry ==
    /\ request \in Requests
    /\ signal \in {"traces", "logs"}
    /\ cursor = <<1, 1, 0>>
    /\ invoked = <<>>
    /\ meta = GrpcMeta
    /\ result = "running"
    /\ NoStore
    /\ proto = "grpc"
    /\ logCallback = TRUE
    /\ pc = [g \in Goroutines |-> "idle"]
    /\ kind = [g \in Goroutines |-> "none"]
    /\ hpc = [h \in Handlers |-> "idle"]
    /\ hsig = [h \in Handlers |-> "none"]
    /\ NoRequest
    /\ NoClients
    /\ NoAnalysis
    /\ NoAnswer
    /\ NoLocks
    /\ hstatus = [h \in Handlers |-> 0]
    /\ servePc = "idle"
    /\ stoponce = FreshOnce
    /\ doneonce = FreshOnce
    /\ stopdone = 0
    /\ shutPc = "recv"
    /\ inShutdown = FALSE
    /\ hookCalls = 0
    /\ stopCalls = 0
    /\ sends = 0

\* an invocation whose verdict the loops ignore
InvokeIgnoringDone(done) ==
    /\ result = "running"
    /\ NextLeaf(request, cursor[1], cursor[2], cursor[3] + 1) # <<0, 0, 0>>
    /\ cursor' = NextLeaf(request, cursor[1], cursor[2], cursor[3] + 1)
    /\ invoked' = Append(invoked, [leaf |-> cursor', done |-> done, meta |-> meta])
    /\ UNCHANGED <<request, signal, meta, result>>
    /\ UNCHANGED <<srvVars, storeVars, reqVars, wsVars, anVars, qVars, lkVars>>

\* done := cb(...); if done { return true }
DoCallbackInvoke(done) ==
    /\ result = "running"
    /\ NextLeaf(request, cursor[1], cursor[2], cursor[3] + 1) # <<0, 0, 0>>
    /\ cursor' = NextLeaf(request, cursor[1], cursor[2], cursor[3] + 1)
    /\ invoked' = Append(invoked, [leaf |-> cursor', done |-> done, meta |-> meta])
    /\ result' = IF done THEN "true" ELSE "running"
    /\ UNCHANGED <<request, signal, meta>>
    /\ UNCHANGED <<srvVars, storeVars, reqVars, wsVars, anVars, qVars, lkVars>>

\* the loops end: return false
DoCallbackReturn ==
    /\ result = "running"
    /\ NextLeaf(request, cursor[1], cursor[2], cursor[3] + 1) = <<0, 0, 0>>
    /\ result' = "false"
    /\ UNCHANGED <<request, signal, cursor, invoked, meta>>
    /\ UNCHANGED <<srvVars, storeVars, reqVars, wsVars, anVars, qVars, lkVars>>

NextDispatch ==
    \/ \E done \in BOOLEAN : DoCallbackInvoke(done)
    \/ DoCallbackReturn

SpecDispatch == DoCallbackEntry /\ [][NextDispatch]_vars

\* the records of a request in resource, then scope, then record order
RECURSIVE ResourceLeaves(_, _, _)
ResourceLeaves(req, r, s) ==
    IF s > Len(req[r]) THEN <<>>
    ELSE [i \in 1..req[r][s] |-> <<r, s, i>>] \o ResourceLeaves(req, r, s + 1)

RECURSIVE LeavesFrom(_, _)
LeavesFrom(req, r) ==
    IF r > Len(req) THEN <<>>
    ELSE ResourceLeaves(req, r, 1) \o LeavesFrom(req, r + 1)

Leaves(req) == LeavesFrom(req, 1)

RaisedStop(h) == hpc[h] = "spawn" \/ kind[Spawned(h)] = "StopWait"

\* the shutdown a handler asked for is over: its StopWait() and Serve have
\* returned (on gRPC after the graceful stop, on HTTP after Shutdown)
ShutdownOver(h) ==
    /\ pc[Spawned(h)] = "returned"
    /\ servePc = "returned"
    /\ proto = "grpc" => shutPc = "done"
    /\ proto = "http" => inShutdown

\* the handler's answer is ready and nothing holds it back
CanReturn(h) ==
    hpc[h] = "reply" => (ENABLED GrpcExportReturn(h) \/ ENABLED HttpReturn(h))

Received(h) == huri[h] # ""

\* C16: every HTTP export request whose content type is neither
\* application/x-protobuf nor application/json, on any path and with or
\* without a log callback, is answered 406 and goes straight to its return:
\* it invokes no callback and leaves the lifecycle of the server alone.
C16_UnsupportedContentType ==
    [][\A h \in Handlers : \A uri \in RequestURIs :
         \A ctype \in ContentTypes :
            (ServeHTTP(h, uri, ctype) /\ ~Decodable(ctype)) =>
                /\ hstatus'[h] = 406
                /\ hpc'[h] = "reply"
                /\ hcb'[h] = "none"
                /\ UNCHANGED <<pc, kind, servePc, inShutdown, stopCalls>>]_vars

\* C17: the log callback is handed a request only on the logs path; every
\* other path is routed as a trace export and only ever reaches the trace
\* callback.
C17_LogCallbackOnlyOnLogsPath ==
    \A h \in Handlers :
        /\ hcb[h] = "log" => huri[h] = "/v1/logs"
        /\ (Received(h) /\ huri[h] # "/v1/logs") =>
               (hsig[h] = "traces" /\ hcb[h] \in {"none", "trace"})
        /\ hcb[h] = "trace" => huri[h] \in {"/v1/traces", "/"}

\* a request on the logs path reached the log callback
C17_Witness ==
    \E h \in Handlers : huri[h] = "/v1/logs" /\ hcb[h] = "log" /\ hpc[h] = "reply"

(***************************************************************************)
(* Claims about the websocket observers.                                   *)
(***************************************************************************)
\* C18: a run of notifyClients writes the new-span event of the ingested
\* span exactly once to every client subscribed when it starts, failing ones
\* included, and to nobody else; it removes exactly the clients whose write
\* failed and leaves the others subscribed.
C18_NotifyEverySubscriber ==
    [][AddSpanStep =>
         /\ notice'.message = [Type    |-> "new_span",
                               SpanID  |-> call'.span.SpanID,
                               TraceID |-> call'.span.TraceID]
         /\ DOMAIN notice'.writes = DOMAIN clients
         /\ \A c \in DOMAIN clients : notice'.writes[c] = 1
         /\ DOMAIN clients' = DOMAIN clients \ notice'.failing]_vars

\* an event went to two observers, the write to one of them failed, and the
\* other one is still subscribed
C18_Witness ==
    /\ Cardinality(notice.before) = 2
    /\ Cardinality(notice.failing) = 1
    /\ \A c \in notice.before : notice.writes[c] = 1
    /\ DOMAIN clients = notice.before \ notice.failing

(***************************************************************************)
(* One call of CodeAnalyzer.AnalyzeSpan, for analyzers with and without a  *)
(* project root, on spans that carry attributes or one event.              *)
(***************************************************************************)
\* attributes per span or event
MaxAttrs == 1

Roots == {"", "/proj"}
Disks == {{}, {"/proj/handler.go", "/proj/app.go", "handler.go"}}

KeyValue(k, v) == [Key |-> k, Value |-> v]

SpanAttributes ==
    {KeyValue(k, v) : k \in {"file.path", "Source_Path", "note"},
                      v \in {"/proj/app.go", "/proj2/app.go", "app.go", "/etc/hosts"}}

StackTraces ==
    {"handler.go:42: nil pointer",
     "/usr/lib/rt.go:7 /proj/app.go:3",
     "../x.go:5 at handler.go:0",
     "panic: no frames"}

EventAttributes ==
    {KeyValue(k, v) : k \in {"stack_trace", "StackTrace", "message"},
                      v \in StackTraces}

EventNames == {"exception", "DB Error", "retry"}
SpanNames == {"read-config", "handle"}

\* a span with attributes and no event, or with one event and no attribute
AnalysedSpans ==
    {[TraceId |-> TraceId(1), SpanId |-> SpanId(1), Name |-> n,
      Attributes |-> attrs, Events |-> <<>>] :
        n \in SpanNames, attrs \in SeqsUpTo(SpanAttributes, MaxAttrs)}
    \cup
    {[TraceId |-> TraceId(1), SpanId |-> SpanId(1), Name |-> "handle",
      Attributes |-> <<>>, Events |-> <<[Name |-> n, Attributes |-> attrs]>>] :
        n \in EventNames, attrs \in SeqsUpTo(EventAttributes, MaxAttrs)}

AnalyzerEntry ==
    /\ codeAnalyzer \in {CodeAnalyzer(root, files) : root \in Roots, files \in Disks}
    /\ analysed \in AnalysedSpans
    /\ extracted = <<>>
    /\ analysisDone = FALSE
    /\ NoAnswer
    /\ NoLocks
    /\ NoStore
    /\ NoDispatch
    /\ NoRequest
    /\ NoClients
    /\ proto = "grpc"
    /\ logCallback = FALSE
    /\ pc = [g \in Goroutines |-> "idle"]
    /\ kind = [g \in Goroutines |-> "none"]
    /\ hpc = [h \in Handlers |-> "idle"]
    /\ hsig = [h \in Handlers |-> "none"]
    /\ hstatus = [h \in Handlers |-> 0]
    /\ servePc = "idle"
    /\ stoponce = FreshOnce
    /\ doneonce = FreshOnce
    /\ stopdone = 0
    /\ shutPc = "recv"
    /\ inShutdown = FALSE
    /\ hookCalls = 0
    /\ stopCalls = 0
    /\ sends = 0

\* contexts := ca.AnalyzeSpan(span, events)
AnalyzeSpanCall ==
    /\ ~analysisDone
    /\ extracted' = AnalyzeSpan(codeAnalyzer, analysed, analysed.Events)
    /\ analysisDone' = TRUE
    /\ UNCHANGED <<codeAnalyzer, analysed>>
    /\ UNCHANGED <<srvVars, storeVars, dispVars, reqVars, wsVars, qVars, lkVars>>

NextAnalyzer == AnalyzeSpanCall

SpecAnalyzer == AnalyzerEntry /\ [][NextAnalyzer]_vars

(***************************************************************************)
(* Claims about the code analyzer.                                         *)
(***************************************************************************)
\* the analysed span carries an event named "exception" or whose name
\* contains "error", and AnalyzeSpan has returned
ErrorEventAnalysed ==
    /\ analysisDone
    /\ analysed.Events # <<>>
    /\ \/ analysed.Events[1].Name = "exception"
       \/ Contains(ToLower(analysed.Events[1].Name), "error")

\* the path:line occurrences in the stack trace of that event
Occurrences == FindAllFileLine(StackTraceAttr(analysed.Events[1].Attributes), 1)

\* the file path the claim gives an occurrence
ClaimedPath(m) ==
    IF IsAbs(m.path) THEN m.path ELSE Join(codeAnalyzer.projectRoot, m.path)

\* the occurrences whose path starts with the project root
RECURSIVE InProject(_)
InProject(matches) ==
    IF matches = <<>> THEN <<>>
    ELSE (IF codeAnalyzer.projectRoot = ""
             \/ HasPrefix(ClaimedPath(Head(matches)), codeAnalyzer.projectRoot)
            THEN <<Head(matches)>> ELSE <<>>)
         \o InProject(Tail(matches))

\* C19 (as claimed): every path:line occurrence in the stack trace of an
\* exception or error event yields one context: the extracted path (joined to
\* the project root when not absolute), LineStart the extracted line,
\* LineEnd = LineStart + 10, operation "exception".
C19_EveryOccurrence ==
    ErrorEventAnalysed =>
        /\ Len(extracted) = Len(Occurrences)
        /\ \A k \in 1..Len(Occurrences) :
              /\ extracted[k].FilePath = ClaimedPath(Occurrences[k])
              /\ extracted[k].LineStart = Occurrences[k].line
              /\ extracted[k].LineEnd = extracted[k].LineStart + 10
              /\ extracted[k].Operation = "exception"

\* C19 (amended): the occurrences whose path, joined to the project root when
\* not absolute, starts with the project root yield one context each, in
\* order, and the others none: the context has that path, operation
\* "exception" and, for a line number of 1 or more, LineStart the line number
\* and LineEnd = LineStart + 10.
C19_OccurrencesInProject ==
    ErrorEventAnalysed =>
        LET kept == InProject(Occurrences)
        IN  /\ Len(extracted) = Len(kept)
            /\ \A k \in 1..Len(kept) :
                  /\ extracted[k].FilePath = ClaimedPath(kept[k])
                  /\ extracted[k].Operation = "exception"
                  /\ kept[k].line >= 1 =>
                        /\ extracted[k].LineStart = kept[k].line
                        /\ extracted[k].LineEnd = extracted[k].LineStart + 10

\* an occurrence outside the project was passed over and a later one inside
\* it gave its context
C19_Witness ==
    /\ ErrorEventAnalysed
    /\ Len(Occurrences) = 2
    /\ Len(extracted) = 1
    /\ extracted[1].FilePath = "/proj/app.go"
    /\ extracted[1].LineStart = 3
    /\ extracted[1].LineEnd = 13

\* the path lies under the root: the root itself or something below it
Under(root, path) == path = root \/ HasPrefix(path, root \o "/")

\* the contexts extracted for the file path `value`
ContextsOf(value) == {k \in 1..Len(extracted) : extracted[k].FilePath = value}

\* C20 (as claimed): an attribute whose key contains "file" or "path" yields
\* exactly one context (FilePath the value, Operation inferred from the span)
\* when the value is an absolute path under the project root, or any path
\* when no root is configured; a value not under the root yields none.
C20_FileAttributeContexts ==
    (analysisDone /\ analysed.Events = <<>>) =>
        \A i \in 1..Len(analysed.Attributes) :
            LET a == analysed.Attributes[i]
                root == codeAnalyzer.projectRoot
                same == {j \in 1..Len(analysed.Attributes) :
                            /\ IsFileKey(analysed.Attributes[j].Key)
                            /\ analysed.Attributes[j].Value = a.Value}
            IN  IsFileKey(a.Key) =>
                  /\ (root = "" \/ (IsAbs(a.Value) /\ Under(root, a.Value))) =>
                        /\ Cardinality(ContextsOf(a.Value)) = Cardinality(same)
                        /\ \A k \in ContextsOf(a.Value) :
                              extracted[k].Operation = inferOperationFromSpan(analysed)
                  /\ (root # "" /\ ~Under(root, a.Value)) =>
                        ContextsOf(a.Value) = {}

\* ---------------------------------------------------------------------
\* The server-assigned metadata of an export, on either backend
\* ---------------------------------------------------------------------

\* GrpcServer.Export and HttpServer.handleTraces / handleLogs hand the
\* decoded request and their metadata map to doCallback / doLogCallback
ExportEntry ==
    /\ proto \in {"grpc", "http"}
    /\ request \in Requests
    /\ \E uri \in RequestURIs, rp \in HttpProtos :
          \E ctype \in {c \in ContentTypes : Decodable(c)} :
              /\ signal = Route(uri)
              /\ meta = IF proto = "grpc" THEN GrpcMeta
                        ELSE HttpMeta("POST", rp, ctype, "localhost:4318", uri)
    /\ cursor = <<1, 1, 0>>
    /\ invoked = <<>>
    /\ result = "running"
    /\ NoStore
    /\ logCallback = TRUE
    /\ pc = [g \in Goroutines |-> "idle"]
    /\ kind = [g \in Goroutines |-> "none"]
    /\ hpc = [h \in Handlers |-> "idle"]
    /\ hsig = [h \in Handlers |-> "none"]
    /\ hstatus = [h \in Handlers |-> 0]
    /\ servePc = "idle"
    /\ stoponce = FreshOnce
    /\ doneonce = FreshOnce
    /\ stopdone = 0
    /\ shutPc = "recv"
    /\ inShutdown = FALSE
    /\ hookCalls = 0
    /\ stopCalls = 0
    /\ sends = 0
    /\ NoRequest
    /\ NoClients
    /\ NoAnalysis
    /\ NoAnswer
    /\ NoLocks

SpecExport == ExportEntry /\ [][NextDispatch]_vars

\* C21: every callback invocation receives a server-assigned metadata map
\* whose protocol-name entry is "grpc" when the record arrived over the gRPC
\* backend and "http" when it arrived over the HTTP backend.
C21_ProtocolName ==
    \A k \in 1..Len(invoked) : invoked[k].meta.proto = proto

\* ---------------------------------------------------------------------
\* ListenAndServe on either backend, as runServer calls it
\* ---------------------------------------------------------------------

\* log.Fatalf has ended the process
Terminated == servePc \in {"fatal-listen", "fatal-serve"}

\* the server was stopped before Serve was entered: grpc's Serve returns
\* ErrServerStopped, net/http's Serve returns ErrServerClosed
StoppedEarly ==
    IF proto = "grpc" THEN shutPc \in {"drain", "done"} ELSE inShutdown

\* ListenAndServe: net.Listen, log.Fatalf when it fails, then Serve
ListenAndServeEnter(bound) ==
    /\ servePc = "idle"
    /\ \/ /\ ~bound
          /\ servePc' = "fatal-listen"
          /\ UNCHANGED <<storeVars, dispVars, reqVars, wsVars, anVars, qVars, lkVars>>
          /\ UNCHANGED <<proto, logCallback, pc, kind, hpc, hsig, hstatus,
                         stoponce, doneonce, stopdone, shutPc, inShutdown,
                         hookCalls, stopCalls, sends>>
       \/ /\ bound
          /\ StoppedEarly
          /\ servePc' = "refused"
          /\ UNCHANGED <<storeVars, dispVars, reqVars, wsVars, anVars, qVars, lkVars>>
          /\ UNCHANGED <<proto, logCallback, pc, kind, hpc, hsig, hstatus,
                         stoponce, doneonce, stopdone, shutPc, inShutdown,
                         hookCalls, stopCalls, sends>>
       \/ /\ bound
          /\ ~StoppedEarly
          /\ GrpcServeStart \/ HttpServeStart

\* Serve hands the error of a refused start to ListenAndServe (on gRPC after
\* the send on stopdone), which ends the process: "failed to serve"
ServeRefused ==
    /\ servePc = "refused"
    /\ proto = "grpc" => stopdone < StopdoneCap
    /\ stopdone' = IF proto = "grpc" THEN stopdone + 1 ELSE stopdone
    /\ servePc' = "fatal-serve"
    /\ UNCHANGED <<storeVars, dispVars, reqVars, wsVars, anVars, qVars, lkVars>>
    /\ UNCHANGED <<proto, logCallback, pc, kind, hpc, hsig, hstatus, stoponce,
                   doneonce, shutPc, inShutdown, hookCalls, stopCalls, sends>>

\* the value Serve returns once a serving server has been stopped: nil from
\* grpc's Serve, ErrServerClosed from net/http's Serve
ServeErr == IF proto = "grpc" THEN "nil" ELSE "ErrServerClosed"

\* if err := Serve(listener); err != nil { log.Fatalf("failed to serve") }
ListenAndServeOutcome(err) == IF err # "nil" THEN "fatal-serve" ELSE "caller"

ListenAndServeReturn ==
    /\ servePc = "returned"
    /\ servePc' = ListenAndServeOutcome(ServeErr)
    /\ UNCHANGED <<storeVars, dispVars, reqVars, wsVars, anVars, qVars, lkVars>>
    /\ UNCHANGED <<proto, logCallback, pc, kind, hpc, hsig, hstatus, stoponce,
                   doneonce, stopdone, shutPc, inShutdown, hookCalls, stopCalls,
                   sends>>

\* every goroutine of the process runs until log.Fatalf ends it
Running(A) == ~Terminated /\ A

NextListen ==
    \/ Running(\E bound \in BOOLEAN : ListenAndServeEnter(bound))
    \/ Running(ServeRefused)
    \/ Running(ListenAndServeReturn)
    \/ Running(\E c \in Callers : \E k \in {"Stop", "StopWait"} : Call(c, k))
    \/ Running(\E g \in Goroutines : Stop(g))
    \/ Running(\E g \in Goroutines : StopWait(g))
    \/ Running(StopperHook)
    \/ Running(GracefulStopBegin)
    \/ Running(GracefulStopEnd)
    \/ Running(GrpcServeExit)
    \/ Running(GrpcServeSignal)
    \/ Running(\E h \in Handlers : GrpcExport(h))
    \/ Running(\E g \in Goroutines : HttpStop(g))
    \/ Running(\E g \in Goroutines : HttpStopWait(g))
    \/ Running(HttpServeExit)
    \/ Running(\E h \in Handlers : HttpHandler(h))

SpecListen == NewServer /\ [][NextListen]_vars

\* C22: a ListenAndServe call that is serving returns normally to its caller
\* once the server is stopped by Stop() or StopWait(), on the gRPC and on the
\* HTTP backend alike: when Serve returns after having served, ListenAndServe
\* returns to its caller and does not end the process.
C22_StopReturnsNormally ==
    [][servePc = "returned" => servePc' = "caller"]_servePc

\* ---------------------------------------------------------------------
\* The store under fewer kinds of span
\* ---------------------------------------------------------------------

\* the root span of trace 1 (with no parent id, with the all-zero one, or
\* re-delivered with a parent), its child (which may have failed) and the
\* root span of trace 2
SweepProtos ==
    {Proto(1, 1, NoParent, PlainSpan), Proto(1, 1, SpanId(0), PlainSpan),
     Proto(1, 1, SpanId(2), PlainSpan), Proto(1, 2, SpanId(1), ChildSpan),
     Proto(1, 2, SpanId(1), FailedSpan), Proto(2, 1, NoParent, PlainSpan)}

NextSweep ==
    \/ \E p \in SweepProtos : \E endTime \in EndTimes(now) : HandleSpan(p, endTime)
    \/ Tick

SpecSweep == NewMCPServer /\ [][NextSweep]_vars

\* C23: in one eviction sweep, if the retention pass marks at least one
\* trace, then no trace that is still inside the retention window is removed
\* in that sweep, even when the total span count remains above maxSpans after
\* the sweep.
C23_RetentionSparesTheWindow ==
    [][(AddSpanStep /\ sweep'.old # {}) =>
          \A id \in DOMAIN sweep'.ends :
              now - sweep'.ends[id] <= retention =>
                  /\ id \notin sweep'.old \cup sweep'.sized
                  /\ id \in DOMAIN traces']_vars

\* a sweep that found more spans than maxSpans has removed the trace its
\* retention pass marked and has kept a trace that is inside the window
C23_Witness ==
    /\ sweep.old # {}
    /\ maxSpans > 0
    /\ TotalSpans(traces) = maxSpans
    /\ \E id \in DOMAIN traces :
          /\ id \in DOMAIN sweep.ends
          /\ now - sweep.ends[id] <= retention

\* ---------------------------------------------------------------------
\* The queries of the store, between calls of AddSpan
\* ---------------------------------------------------------------------

\* GetSpan: the span of a stored trace, or nil
GetSpan(tr, traceID, spanID) ==
    IF traceID \notin DOMAIN tr THEN NoSpan
    ELSE IF spanID \in DOMAIN tr[traceID].Spans
           THEN tr[traceID].Spans[spanID] ELSE NoSpan

\* for _, sc := range store.spansByFile[filePath] { result[sc.TraceID] = append(...) }
RECURSIVE GroupByTrace(_, _)
GroupByTrace(bucket, grouped) ==
    IF bucket = <<>> THEN grouped
    ELSE LET sc == Head(bucket)
             sofar == IF sc.TraceID \in DOMAIN grouped
                        THEN grouped[sc.TraceID] ELSE <<>>
         IN  GroupByTrace(Tail(bucket), MapPut(grouped, sc.TraceID, Append(sofar, sc)))

\* GetFileTraces: the contexts of the file's bucket under their TraceID
GetFileTraces(idx, filePath) ==
    GroupByTrace(IF filePath \in DOMAIN idx THEN idx[filePath] ELSE <<>>, EmptyMap)

\* the trace ids, span ids and paths the queries of the model ask for
QueryTraceIDs == {Built[p, 0].TraceID : p \in Protos} \cup {"ffff"}
QuerySpanIDs == {Built[p, 0].SpanID : p \in Protos}
QueryPaths == {"/proj/a.go", "/proj/handler.go", "/proj/none.go"}

\* a query under the read lock: the answer, and nothing else, changes
Answer(op, args, value) ==
    /\ answer.op = "none"
    /\ answer' = [op |-> op, args |-> args, value |-> value]
    /\ UNCHANGED <<srvVars, storeVars, dispVars, reqVars, wsVars, anVars, lkVars>>

\* a GetTrace that drops the trace it finds past its retention window
GetTraceCallExpiring(traceID) ==
    /\ answer.op = "none"
    /\ answer' = [op |-> "GetTrace", args |-> <<traceID>>,
                  value |-> GetTrace(traces, traceID)]
    /\ traces' = IF /\ traceID \in DOMAIN traces
                    /\ retention > 0
                    /\ now - traces[traceID].EndTime > retention
                   THEN MapDrop(traces, {traceID}) ELSE traces
    /\ UNCHANGED <<spansByFile, maxSpans, retention, now, nAdds, call, sweep>>
    /\ UNCHANGED <<srvVars, dispVars, reqVars, wsVars, anVars, lkVars>>

GetTraceCall(traceID) ==
    Answer("GetTrace", <<traceID>>, GetTrace(traces, traceID))

GetSpanCall(traceID, spanID) ==
    Answer("GetSpan", <<traceID, spanID>>, GetSpan(traces, traceID, spanID))

ListFilesCall == Answer("ListFiles", <<>>, ListFiles)

GetFileTracesCall(filePath) ==
    Answer("GetFileTraces", <<filePath>>, GetFileTraces(spansByFile, filePath))

ListTracesCall(order) == Answer("ListTraces", <<>>, ListTraces(traces, order))

SearchTracesCall(req, order) ==
    Answer("SearchTraces", <<req>>, SearchTraces(traces, req, order, now))

\* the caller takes the answer
Return ==
    /\ answer.op # "none"
    /\ answer' = [op |-> "none"]
    /\ UNCHANGED <<srvVars, storeVars, dispVars, reqVars, wsVars, anVars, lkVars>>

\* the searches the callers of the model make
QuerySearches ==
    {[Files |-> <<>>, TimeRange |-> "", ErrorsOnly |-> FALSE, Limit |-> 0],
     [Files |-> <<>>, TimeRange |-> "", ErrorsOnly |-> FALSE, Limit |-> 1],
     [Files |-> <<>>, TimeRange |-> "", ErrorsOnly |-> FALSE, Limit |-> 2],
     [Files |-> <<>>, TimeRange |-> "1h", ErrorsOnly |-> FALSE, Limit |-> 1],
     [Files |-> <<>>, TimeRange |-> "", ErrorsOnly |-> TRUE, Limit |-> 1],
     [Files |-> <<"/proj/a.go">>, TimeRange |-> "", ErrorsOnly |-> FALSE, Limit |-> 1],
     [Files |-> <<"/proj/handler.go", "/proj/none.go">>, TimeRange |-> "1h",
      ErrorsOnly |-> TRUE, Limit |-> 0]}

\* spans with file contexts from attributes and from stack traces, in two traces
QueryProtos ==
    {Proto(1, 1, NoParent, FileSpan), Proto(1, 2, SpanId(1), FailedSpan),
     Proto(2, 1, NoParent, FileSpan), Proto(2, 1, NoParent, PlainSpan)}

\* AddSpan takes the write lock: it runs between the queries
NextQueries ==
    \/ /\ answer.op = "none"
       /\ \E p \in QueryProtos : \E endTime \in EndTimes(now) : HandleSpan(p, endTime)
    \/ answer.op = "none" /\ Tick
    \/ Return
    \/ \E traceID \in QueryTraceIDs : GetTraceCall(traceID)
    \/ \E traceID \in QueryTraceIDs : \E spanID \in QuerySpanIDs :
          GetSpanCall(traceID, spanID)
    \/ ListFilesCall
    \/ \E filePath \in QueryPaths : GetFileTracesCall(filePath)
    \/ \E order \in Orders(traces) : ListTracesCall(order)
    \/ \E req \in QuerySearches : \E order \in Orders(traces) :
          SearchTracesCall(req, order)

SpecQueries == NewMCPServer /\ [][NextQueries]_vars

\* C24: GetTrace, GetSpan, ListFiles, GetFileTraces, ListTraces and
\* SearchTraces leave the trace index and the file index unchanged; a trace is
\* removed only during an AddSpan call, however far past its retention window
\* it is.
C24_QueriesLeaveTheStore ==
    [][~AddSpanStep => (traces' = traces /\ spansByFile' = spansByFile)]_vars

\* GetTrace has returned a trace that is past its retention window, and the
\* trace is still stored
C24_Witness ==
    /\ answer.op = "GetTrace"
    /\ retention > 0
    /\ answer.args[1] \in DOMAIN traces
    /\ answer.value = traces[answer.args[1]]
    /\ now - traces[answer.args[1]].EndTime > retention

\* the parent id names no parent: it is empty or the all-zero sentinel
Parentless(spanData) == spanData.ParentID \in {"", "0000000000000000"}

\* the same record, whatever children it has been given since
SameRecord(a, b) ==
    \/ a = b
    \/ /\ a # NoSpan
       /\ b # NoSpan
       /\ [a EXCEPT !.Children = <<>>] = [b EXCEPT !.Children = <<>>]

\* C25: after every AddSpan, a trace's root reference is the most recently
\* added span of that trace whose parent id is empty or the all-zero
\* sentinel, and is absent when no such span has been added; adding a span
\* that has a real parent never changes the root reference.  Step by step:
\* the call makes a parentless span the root of its trace, and leaves every
\* other root reference (absent in a trace it creates) as it was.
C25_RootReference ==
    [][AddSpanStep =>
          \A id \in DOMAIN traces' :
              IF id = call'.span.TraceID /\ Parentless(call'.span)
                THEN traces'[id].RootSpan = call'.span
                ELSE IF id \in DOMAIN traces
                       THEN SameRecord(traces'[id].RootSpan, traces[id].RootSpan)
                       ELSE traces'[id].RootSpan = NoSpan]_vars

\* the root span of a trace was delivered again with a real parent: the root
\* reference still is the record of the first delivery, which is no longer
\* the record stored under its span id
C25_Witness ==
    \E id \in DOMAIN traces :
        /\ traces[id].RootSpan # NoSpan
        /\ call.span.TraceID = id
        /\ call.span.SpanID = traces[id].RootSpan.SpanID
        /\ ~Parentless(call.span)
        /\ traces[id].Spans[call.span.SpanID] # traces[id].RootSpan

\* C26: after every AddSpan (including one that overwrites an existing span
\* id), each stored trace's start time equals the minimum start time, and
\* its end time the maximum end time, over the spans currently contained in
\* the trace.
C26_TraceTimes ==
    \A id \in DOMAIN traces :
        LET spans == traces[id].Spans
        IN  /\ \E s \in DOMAIN spans : spans[s].StartTime = traces[id].StartTime
            /\ \A s \in DOMAIN spans : spans[s].StartTime >= traces[id].StartTime
            /\ \E s \in DOMAIN spans : spans[s].EndTime = traces[id].EndTime
            /\ \A s \in DOMAIN spans : spans[s].EndTime <= traces[id].EndTime

\* C27 (as claimed): a stored trace's status is always one of "ok" or
\* "error", and it is "error" if any code context of a span contained in the
\* trace is classified error or exception.
C27_StatusOkOrError ==
    \A id \in DOMAIN traces :
        /\ traces[id].Status \in {"ok", "error"}
        /\ ErrorsOf(traces[id]) # {} => traces[id].Status = "error"

\* C27 (amended): a stored trace's status is always either empty (never set)
\* or "error", and it is "error" if any code context of a span contained in
\* the trace is classified error or exception.
C27_StatusUnsetOrError ==
    \A id \in DOMAIN traces :
        /\ traces[id].Status \in {"", "error"}
        /\ ErrorsOf(traces[id]) # {} => traces[id].Status = "error"

\* a trace that holds a span with an exception context has status "error",
\* next to a trace without one, whose status was never set
C27_Witness ==
    /\ \E id \in DOMAIN traces :
          ErrorsOf(traces[id]) # {} /\ traces[id].Status = "error"
    /\ \E id \in DOMAIN traces :
          ErrorsOf(traces[id]) = {} /\ traces[id].Status = ""

\* ---------------------------------------------------------------------
\* A parent span and its child, delivered and delivered again
\* ---------------------------------------------------------------------

\* calls of HandleSpan in a behaviour of SpecRedelivery
MaxDeliveries == 3

\* the root span of trace 1 and its child, and the first span delivered as a
\* child of the second
FamilyProtos ==
    {Proto(1, 1, NoParent, PlainSpan), Proto(1, 2, SpanId(1), ChildSpan),
     Proto(1, 1, SpanId(2), PlainSpan)}

NextRedelivery ==
    \/ /\ nAdds < MaxDeliveries
       /\ \E p \in FamilyProtos : \E endTime \in EndTimes(now) :
             HandleSpanCall(p, endTime)
    \/ Tick

SpecRedelivery == NewMCPServer /\ [][NextRedelivery]_vars

\* C28: across any sequence of AddSpan calls during which the trace is not
\* evicted, the child list recorded for a span id only grows: every child id
\* present after one call is still present after every later call, including
\* a later re-delivery of the parent span itself.
C28_ChildListOnlyGrows ==
    [][AddSpanStep =>
          \A id \in DOMAIN traces \cap DOMAIN traces' :
              \A s \in DOMAIN traces[id].Spans :
                  /\ s \in DOMAIN traces'[id].Spans
                  /\ Range(traces[id].Spans[s].Children)
                        \subseteq Range(traces'[id].Spans[s].Children)]_vars

\* the request carries a maximum-age window: a time range that is a duration
Windowed(req) == req.TimeRange # "" /\ ~Durations[req.TimeRange].err

\* the trace passes the filters of the request at time nowT
Passes(trace, req, nowT) ==
    /\ Windowed(req) => trace.EndTime >= nowT - Durations[req.TimeRange].duration
    /\ req.ErrorsOnly => trace.Status = "error"
    /\ req.Files # <<>> => trace.Files \cap Range(req.Files) # {}

Min(a, b) == IF a < b THEN a ELSE b

\* C29: SearchTraces returns a trace only if it passes all the configured
\* filters (end time within the maximum-age window, status error when
\* errorsOnly is set, at least one listed file when a file filter is given),
\* and when a result cap L > 0 is given it returns exactly min(L, number of
\* traces passing the filters) digests.
C29_SearchPassesAndCap ==
    answer.op = "SearchTraces" =>
        LET req == answer.args[1]
            found == answer.value
            passing == {id \in DOMAIN traces : Passes(traces[id], req, now)}
        IN  /\ \A k \in 1..Len(found) : found[k].TraceID \in passing
            /\ req.Limit > 0 => Len(found) = Min(req.Limit, Cardinality(passing))

\* two stored traces pass the filters of a search with cap 1, which has
\* returned one digest
C29_Witness ==
    /\ answer.op = "SearchTraces"
    /\ answer.args[1].Limit = 1
    /\ Len(answer.value) = 1
    /\ Cardinality({id \in DOMAIN traces :
                       Passes(traces[id], answer.args[1], now)}) = 2

\* the contexts of the spans of a trace that refer to a path
ContextsFor(trace, path) == {c \in HeldContexts(trace) : c.FilePath = path}

\* C30: GetFileTraces(path) returns a map whose keys are exactly the ids of
\* the stored traces that have a code context for that path, each key mapped
\* to exactly the code contexts of that trace's spans that reference the
\* path, whatever the origin of the context (span attribute, event attribute
\* or stack trace).
C30_FileTraces ==
    answer.op = "GetFileTraces" =>
        LET path == answer.args[1]
            found == answer.value
        IN  /\ DOMAIN found =
                  {id \in DOMAIN traces : ContextsFor(traces[id], path) # {}}
            /\ \A id \in DOMAIN found \cap DOMAIN traces :
                  Range(found[id]) = ContextsFor(traces[id], path)

(***************************************************************************)
(* The goroutines of the MCP server and its two locks.  An export handler  *)
(* (Export, or handleTraces) runs doCallback and with it HandleSpan:       *)
(* AnalyzeSpan, store.AddSpan under store.lock, notifyClients under        *)
(* mcp.clientsLock; the handler answers its client when it returns.  A     *)
(* query handler (handleGetTrace) calls store.GetTrace, which takes the    *)
(* read lock for the map lookup only, and then walks the trace it got.     *)
(***************************************************************************)
\* a data race on a Go map may end the process ("fatal error: concurrent map
\* iteration and map write"); no goroutine runs after that
Alive == \A q \in Queriers : qpc[q].at # "crashed"

\* the spans the export handlers deliver
LockProtos == {Proto(1, 1, NoParent, FileSpan), Proto(1, 2, SpanId(1), ChildSpan)}

\* the traces a query handler is asked for
LockTraceIDs == {Built[p, 0].TraceID : p \in LockProtos}

\* the one websocket observer of this specification
LockConn == CHOOSE conn \in Conns : TRUE

\* Export / handleTraces: the request is decoded, doCallback calls HandleSpan
ExportEnter(g, p) ==
    /\ Alive
    /\ ipc[g] = "idle"
    /\ nAdds < MaxAdds
    /\ ipc' = [ipc EXCEPT ![g] = "callback"]
    /\ ispan' = [ispan EXCEPT ![g] = [NoExport EXCEPT !.proto = p]]
    /\ acked' = [acked EXCEPT ![g] = FALSE]
    /\ UNCHANGED <<storeLock, clientsLock, qpc>>
    /\ UNCHANGED <<srvVars, storeVars, dispVars, reqVars, wsVars, anVars, qVars>>

\* HandleSpan: spanData.FileContexts = mcp.analyzer.AnalyzeSpan(span, events),
\* which reads the source files; no lock is held
HandleSpanAnalyze(g) ==
    /\ Alive
    /\ ipc[g] = "callback"
    /\ ipc' = [ipc EXCEPT ![g] = "analysed"]
    /\ ispan' = [ispan EXCEPT ![g].analysed = TRUE]
    /\ UNCHANGED <<storeLock, clientsLock, acked, qpc>>
    /\ UNCHANGED <<srvVars, storeVars, dispVars, reqVars, wsVars, anVars, qVars>>

\* AddSpan: store.lock.Lock()
AddSpanLock(g) ==
    /\ Alive
    /\ ipc[g] = "analysed"
    /\ storeLock.writer = Nobody
    /\ storeLock.readers = {}
    /\ storeLock' = [storeLock EXCEPT !.writer = g]
    /\ ipc' = [ipc EXCEPT ![g] = "locked"]
    /\ UNCHANGED <<clientsLock, ispan, acked, qpc>>
    /\ UNCHANGED <<srvVars, storeVars, dispVars, reqVars, wsVars, anVars, qVars>>

\* AddSpan: the upsert and cleanupOldTraces.  A query handler that walks the
\* maps of the same trace at this moment races with the writes.
AddSpanWrite(g) ==
    /\ Alive
    /\ ipc[g] = "locked"
    /\ LET spanData == Built[ispan[g].proto, now]
           added == UpsertSpan(traces, spansByFile, spanData)
       IN  /\ \E order1, order2 \in Orders(added.traces) :
                LET m == Marked(added.traces, order1, order2, now, maxSpans, retention)
                    kept == RemoveTraces(added.traces, added.spansByFile,
                                         m.old \o m.sized)
                IN  /\ traces' = kept.traces
                    /\ spansByFile' = kept.spansByFile
                    /\ call' = Found(traces, spanData)
                    /\ sweep' = [old   |-> Range(m.old),
                                 sized |-> Range(m.sized),
                                 ends  |-> [id \in DOMAIN added.traces |->
                                               added.traces[id].EndTime]]
           /\ qpc' = [q \in Queriers |->
                        IF qpc[q].at = "reading" /\ qpc[q].id = spanData.TraceID
                          THEN [qpc[q] EXCEPT !.raced = TRUE]
                          ELSE qpc[q]]
    /\ nAdds' = nAdds + 1
    /\ ipc' = [ipc EXCEPT ![g] = "written"]
    /\ ispan' = [ispan EXCEPT ![g].written = TRUE]
    /\ UNCHANGED <<maxSpans, retention, now>>
    /\ UNCHANGED <<storeLock, clientsLock, acked>>
    /\ UNCHANGED <<srvVars, dispVars, reqVars, wsVars, anVars, qVars>>

\* AddSpan returns: the deferred store.lock.Unlock()
AddSpanUnlock(g) ==
    /\ Alive
    /\ ipc[g] = "written"
    /\ storeLock' = [storeLock EXCEPT !.writer = Nobody]
    /\ ipc' = [ipc EXCEPT ![g] = "stored"]
    /\ UNCHANGED <<clientsLock, ispan, acked, qpc>>
    /\ UNCHANGED <<srvVars, storeVars, dispVars, reqVars, wsVars, anVars, qVars>>

\* a notifyClients that takes mcp.clientsLock inside AddSpan's critical section
NotifyLockInsideStore(g) ==
    /\ Alive
    /\ ipc[g] = "written"
    /\ clientsLock = Nobody
    /\ clientsLock' = g
    /\ ipc' = [ipc EXCEPT ![g] = "notifying"]
    /\ UNCHANGED <<storeLock, ispan, acked, qpc>>
    /\ UNCHANGED <<srvVars, storeVars, dispVars, reqVars, wsVars, anVars, qVars>>

\* notifyClients: the message is marshalled, then mcp.clientsLock.Lock()
NotifyLock(g) ==
    /\ Alive
    /\ ipc[g] = "stored"
    /\ clientsLock = Nobody
    /\ clientsLock' = g
    /\ ipc' = [ipc EXCEPT ![g] = "notifying"]
    /\ UNCHANGED <<storeLock, ispan, acked, qpc>>
    /\ UNCHANGED <<srvVars, storeVars, dispVars, reqVars, wsVars, anVars, qVars>>

\* notifyClients: the loop over mcp.clients
NotifyWrite(g) ==
    /\ Alive
    /\ ipc[g] = "notifying"
    /\ \E order \in Orders(clients) : \E failing \in SUBSET DOMAIN clients :
         LET told == notifyClients(clients, Built[ispan[g].proto, now], order, failing)
         IN  /\ clients' = told.clients
             /\ notice' = told.notice
    /\ ipc' = [ipc EXCEPT ![g] = "notified"]
    /\ UNCHANGED <<storeLock, clientsLock, ispan, acked, qpc>>
    /\ UNCHANGED <<srvVars, storeVars, dispVars, reqVars, anVars, qVars>>

\* notifyClients returns: the deferred mcp.clientsLock.Unlock(); HandleSpan
\* returns false to doCallback
NotifyUnlock(g) ==
    /\ Alive
    /\ ipc[g] = "notified"
    /\ clientsLock' = Nobody
    /\ ipc' = [ipc EXCEPT ![g] = "returned"]
    /\ UNCHANGED <<storeLock, ispan, acked, qpc>>
    /\ UNCHANGED <<srvVars, storeVars, dispVars, reqVars, wsVars, anVars, qVars>>

\* an export handler that answers its client before doCallback has run
ExportAnswerEarly(g) ==
    /\ Alive
    /\ ipc[g] = "callback"
    /\ ~acked[g]
    /\ acked' = [acked EXCEPT ![g] = TRUE]
    /\ UNCHANGED <<storeLock, clientsLock, ipc, ispan, qpc>>
    /\ UNCHANGED <<srvVars, storeVars, dispVars, reqVars, wsVars, anVars, qVars>>

\* Export: done := doCallback(...) has returned; return
\* &ExportTraceServiceResponse{}, nil (handleTraces: the handler returns and
\* the 200 is written): the client has its answer
ExportAnswer(g) ==
    /\ Alive
    /\ ipc[g] = "returned"
    /\ acked' = [acked EXCEPT ![g] = TRUE]
    /\ ipc' = [ipc EXCEPT ![g] = "idle"]
    /\ ispan' = [ispan EXCEPT ![g] = NoExport]
    /\ UNCHANGED <<storeLock, clientsLock, qpc>>
    /\ UNCHANGED <<srvVars, storeVars, dispVars, reqVars, wsVars, anVars, qVars>>

\* handleWebsocket registers the observer under mcp.clientsLock
LockedWebsocket ==
    /\ Alive
    /\ clientsLock = Nobody
    /\ handleWebsocket(LockConn)

\* GetTrace: store.lock.RLock()
GetTraceRLock(q, traceID) ==
    /\ Alive
    /\ qpc[q].at = "idle"
    /\ storeLock.writer = Nobody
    /\ storeLock' = [storeLock EXCEPT !.readers = @ \cup {q}]
    /\ qpc' = [qpc EXCEPT ![q] = [at |-> "rlocked", id |-> traceID, raced |-> FALSE]]
    /\ UNCHANGED <<clientsLock, ipc, ispan, acked>>
    /\ UNCHANGED <<srvVars, storeVars, dispVars, reqVars, wsVars, anVars, qVars>>

\* GetTrace: return store.traces[traceID] and the deferred RUnlock(); the
\* handler answers 404 for nil and holds a pointer to the stored trace
\* otherwise
GetTraceReturn(q) ==
    /\ Alive
    /\ qpc[q].at = "rlocked"
    /\ storeLock' = [storeLock EXCEPT !.readers = @ \ {q}]
    /\ qpc' = [qpc EXCEPT ![q] =
                 IF GetTrace(traces, qpc[q].id) = NoSpan THEN IdleQuery
                 ELSE [@ EXCEPT !.at = "reading"]]
    /\ UNCHANGED <<clientsLock, ipc, ispan, acked>>
    /\ UNCHANGED <<srvVars, storeVars, dispVars, reqVars, wsVars, anVars, qVars>>

\* handleGetTrace: the loops over trace.Spans, span.Children and
\* span.FileContexts end.  Reads that raced with a write are a data race: the
\* response is written all the same, or the runtime ends the process.
handleGetTraceRespond(q) ==
    /\ Alive
    /\ qpc[q].at = "reading"
    /\ \/ qpc' = [qpc EXCEPT ![q] = IdleQuery]
       \/ /\ qpc[q].raced
          /\ qpc' = [qpc EXCEPT ![q].at = "crashed"]
    /\ UNCHANGED <<storeLock, clientsLock, ipc, ispan, acked>>
    /\ UNCHANGED <<srvVars, storeVars, dispVars, reqVars, wsVars, anVars, qVars>>

NextLocks ==
    \/ \E g \in Ingesters : \E p \in LockProtos : ExportEnter(g, p)
    \/ \E g \in Ingesters : HandleSpanAnalyze(g)
    \/ \E g \in Ingesters : AddSpanLock(g)
    \/ \E g \in Ingesters : AddSpanWrite(g)
    \/ \E g \in Ingesters : AddSpanUnlock(g)
    \/ \E g \in Ingesters : NotifyLock(g)
    \/ \E g \in Ingesters : NotifyWrite(g)
    \/ \E g \in Ingesters : NotifyUnlock(g)
    \/ \E g \in Ingesters : ExportAnswer(g)
    \/ LockedWebsocket
    \/ \E q \in Queriers : \E traceID \in LockTraceIDs : GetTraceRLock(q, traceID)
    \/ \E q \in Queriers : GetTraceReturn(q)
    \/ \E q \in Queriers : handleGetTraceRespond(q)

SpecLocks == NewMCPServer /\ [][NextLocks]_vars

\* C31 (as claimed): a query handler reads store-owned data (a trace's span
\* map, a span's child list and file contexts, a trace's file set) only while
\* it holds the store's read lock, so it never reads while a concurrent AddSpan
\* or eviction is mutating that data.
C31_ReadsUnderReadLock ==
    \A q \in Queriers :
        qpc[q].at = "reading"
            => /\ q \in storeLock.readers
               /\ \A g \in Ingesters : ipc[g] \notin {"locked", "written"}

\* C32: for each ingested span the callback has finished the code analysis
\* before it takes the store lock, has released the store lock before it takes
\* the subscriber lock, and notifies subscribers only after the span has been
\* written; no goroutine ever holds the store lock and the subscriber lock
\* together.
C32_LockOrder ==
    \A g \in Ingesters :
        /\ storeLock.writer = g => ispan[g].analysed
        /\ clientsLock = g => /\ storeLock.writer # g
                              /\ ispan[g].written
        /\ ipc[g] = "notified" => /\ ispan[g].written
                                  /\ clientsLock = g

\* an observer has been told about a span that HandleSpan analysed, wrote
\* under the store lock and announced under the subscriber lock alone
C32_Witness ==
    \E g \in Ingesters :
        /\ ipc[g] = "notified"
        /\ clientsLock = g
        /\ storeLock.writer = Nobody
        /\ ispan[g].analysed
        /\ ispan[g].written
        /\ notice.message.SpanID = Built[ispan[g].proto, now].SpanID
        /\ \E c \in DOMAIN notice.writes : notice.writes[c] = 1

\* an export handler answers its client in this step
Acknowledges(g) == acked'[g] /\ ~acked[g]

\* C33 (as claimed): for every export request the acknowledgement to the
\* wire-protocol client is issued before the analyzer work and the store write
\* performed for the request's records.
C33_AckBeforeStore ==
    [][\A g \in Ingesters :
          Acknowledges(g) => ~ispan[g].analysed /\ ~ispan[g].written]_vars

\* C33 (amended): for every export request the acknowledgement to the
\* wire-protocol client is issued after the analyzer work and the store write
\* performed for the request's records.
C33_AckAfterStore ==
    [][\A g \in Ingesters :
          Acknowledges(g) => ispan[g].analysed /\ ispan[g].written]_vars

\* an export has been answered, and its span had been written by then
C33_Witness ==
    \E g \in Ingesters :
        /\ acked[g]
        /\ ipc[g] = "idle"
        /\ nAdds = 1
        /\ call # NoCall
        /\ traces # EmptyMap

\* the contexts as their constructors leave them, before any file is read:
\* AnalyzeSpan on an empty disk
RawContexts ==
    AnalyzeSpan(CodeAnalyzer(codeAnalyzer.projectRoot, {}), analysed, analysed.Events)

\* the lines a..b of a file of the given length, each with its number
NumberedLines(a, b, length) ==
    LET last == IF b < length THEN b ELSE length
    IN  [k \in 1..(IF last >= a THEN last - a + 1 ELSE 0) |->
            SnippetLine(a + k - 1, a + k - 1)]

\* C34: for every context whose file is readable, LineStart is 1 when it was
\* unset, LineEnd is LineStart + 20 when no end was given, the window from
\* LineStart to LineEnd holds at most 50 lines, and the snippet is the file's
\* existing lines from max(1, LineStart - 5) to LineEnd, each prefixed with its
\* 1-based number.
C34_Snippet ==
    analysisDone =>
        /\ Len(extracted) = Len(RawContexts)
        /\ \A i \in 1..Len(extracted) :
             LET raw == RawContexts[i]
                 context == extracted[i]
                 first == IF context.LineStart - 5 > 1 THEN context.LineStart - 5
                          ELSE 1
             IN  raw.FilePath \in codeAnalyzer.files =>
                    /\ context.LineStart = IF raw.LineStart = 0 THEN 1
                                           ELSE raw.LineStart
                    /\ context.LineEnd = IF raw.LineEnd = 0
                                           THEN context.LineStart + 20
                                           ELSE raw.LineEnd
                    /\ context.LineEnd - context.LineStart + 1 <= 50
                    /\ context.CodeSnapshot =
                           NumberedLines(first, context.LineEnd,
                                         FileLength(context.FilePath))

\* a stack-trace context at line 42 of a file of 45 lines: the snippet runs
\* from line 37 to the end of the file
C34_Witness ==
    /\ analysisDone
    /\ \E i \in 1..Len(extracted) :
         /\ extracted[i].FilePath \in codeAnalyzer.files
         /\ extracted[i].LineStart = 42
         /\ Len(extracted[i].CodeSnapshot) = 9
         /\ extracted[i].CodeSnapshot[1].prefix = 37

\* GetSpan has been called for the span of the last AddSpan, no write between
ReadBack ==
    /\ call # NoCall
    /\ answer.op = "GetSpan"
    /\ answer.args = <<call.span.TraceID, call.span.SpanID>>

\* C35 (as claimed): immediately after AddSpan(s) returns, with no other write
\* in between, GetSpan(s.traceID, s.spanID) returns s: the sweep at the end of
\* that AddSpan never removes the trace just written, whatever retention and
\* maxSpans are.
C35_ReadBack == ReadBack => answer.value = call.span

\* C35 (amended): immediately after AddSpan(s) returns, with no other write in
\* between, GetSpan(s.traceID, s.spanID) returns s unless the sweep at the end
\* of that AddSpan removed the trace just written (its retention pass or its
\* size pass marked it); then the trace is gone and GetSpan returns nil.
C35_ReadBackUnlessEvicted ==
    ReadBack =>
        IF call.span.TraceID \in sweep.old \cup sweep.sized
          THEN /\ call.span.TraceID \notin DOMAIN traces
               /\ answer.value = NoSpan
          ELSE answer.value = call.span

\* a span was read back after an AddSpan whose sweep removed another trace
C35_Witness ==
    /\ ReadBack
    /\ answer.value = call.span
    /\ sweep.old \cup sweep.sized # {}

\* C36 (as claimed): whenever a stored trace has a root reference, the
\* referenced record is the record currently stored in the trace's span map
\* under its own span id, and that record has no parent (empty or all-zero
\* parent id); the root never points at a record a re-delivery has superseded.
C36_RootIsStored ==
    \A id \in DOMAIN traces :
        traces[id].RootSpan # NoSpan =>
            /\ traces[id].RootStored
            /\ traces[id].RootSpan.SpanID \in DOMAIN traces[id].Spans
            /\ traces[id].Spans[traces[id].RootSpan.SpanID] = traces[id].RootSpan
            /\ Parentless(traces[id].Spans[traces[id].RootSpan.SpanID])

\* C37 (as claimed): in every reachable store state, for every stored span p
\* and every id c in p's child list, c is the id of a span stored in the same
\* trace whose recorded parent id is p's span id.
C37_ChildrenAreStoredChildren ==
    \A id \in DOMAIN traces :
        \A p \in DOMAIN traces[id].Spans :
            \A c \in Range(traces[id].Spans[p].Children) :
                /\ c \in DOMAIN traces[id].Spans
                /\ traces[id].Spans[c].ParentID = p

\* ---------------------------------------------------------------------
\* The file index under eviction: failed spans of trace 1 and of the trace
\* of the spans that carry no trace id
\* ---------------------------------------------------------------------
IndexProtos ==
    {Proto(1, 1, NoParent, FailedSpan), Proto(1, 1, NoParent, FileSpan), Unidentified}

NextIndex ==
    \/ \E p \in IndexProtos : \E endTime \in EndTimes(now) : HandleSpan(p, endTime)
    \/ Tick

SpecIndex == NewMCPServer /\ [][NextIndex]_vars

\* C38 (as claimed): after any sequence of AddSpan calls, every code context
\* held by a span of a stored trace appears in the file index under its file
\* path: evicting one trace never removes an index entry that belongs to a
\* context of a trace that stays in the store.
C38_HeldContextsAreIndexed ==
    \A id \in DOMAIN traces :
        \A context \in HeldContexts(traces[id]) :
            /\ context.FilePath \in DOMAIN spansByFile
            /\ context \in Range(spansByFile[context.FilePath])

\* SearchTraces has answered the request without time range, errorsOnly, file
\* filter and cap
SearchedEverything ==
    /\ answer.op = "SearchTraces"
    /\ answer.args[1] = [Files |-> <<>>, TimeRange |-> "", ErrorsOnly |-> FALSE,
                         Limit |-> 0]

\* C39: for every store state, SearchTraces with no time range,
\* errorsOnly = false, no file filter and no cap returns one digest per stored
\* trace, equal field by field (id, name, span count, error count, set of
\* files, start time, duration) to the digest ListTraces returns for that trace.
C39_SearchAgreesWithList ==
    SearchedEverything =>
        /\ Len(answer.value) = Cardinality(DOMAIN traces)
        /\ \A order \in Orders(traces) :
              /\ Range(answer.value) = Range(ListTraces(traces, order))
              /\ \A k \in 1..Len(order) :
                    \E j \in 1..Len(answer.value) :
                        /\ answer.value[j].TraceID = ListTraces(traces, order)[k].TraceID
                        /\ answer.value[j] = ListTraces(traces, order)[k]

\* the unfiltered search of a store with a trace that touches two files and
\* holds an error context
C39_Witness ==
    /\ SearchedEverything
    /\ \E j \in 1..Len(answer.value) :
          /\ Cardinality(answer.value[j].Files) = 2
          /\ answer.value[j].ErrorCount = 1
          /\ answer.value[j].SpanCount = 2

\* no goroutine has called or been started with StopWait
NoStopWait == \A g \in Goroutines : kind[g] # "StopWait"

\* C40: on the gRPC backend, after Stop() alone (no StopWait() caller ever
\* arrives to receive the completion signal), a blocked Serve call still
\* returns once the graceful stop completes; Serve never blocks forever while
\* handing over its completion signal.
C40_ServeReturnsAfterStopAlone ==
    (servePc \in {"serving", "exited"} /\ shutPc = "done")
        ~> (servePc = "returned" \/ ~NoStopWait)

\* Serve has returned after a Stop(); its signal sits in stopdone and nobody
\* has come to take it
C40_Witness ==
    /\ servePc = "returned"
    /\ shutPc = "done"
    /\ stopdone = 1
    /\ NoStopWait
    /\ \E g \in Goroutines : kind[g] = "Stop" /\ pc[g] = "returned"

=============================================================================
